---- MODULE Spec2Model ----
(***************************************************************************)
(* Report-content pipeline of the CleverProfits portal: the sheet          *)
(* extractor (src/lib/excel.ts), the report generation request and the     *)
(* section parser (api/admin/reports/generate).                            *)
(*                                                                         *)
(* A JavaScript string is modelled as a sequence of one-character strings, *)
(* so that toLowerCase, includes, trim, split and the regular expressions  *)
(* are computed character by character.                                    *)
(***************************************************************************)
EXTENDS Integers, Sequences, FiniteSets, TLC

VARIABLES
    workbook,      \* extractCoreSheets: the workbook XLSX.read returned
    maxTokens,     \* extractCoreSheets: the token budget
    targetIdx,     \* extractCoreSheets: number of CORE_SHEETS entries already visited
    result,        \* extractCoreSheets: the ExtractionResult under construction
    skipped,       \* extractCoreSheets: sheets reported by console.warn as skipped
    exPc,          \* extractCoreSheets: position ("loop", "done", "idle")
    reportContent, \* the generated document handed to parseReportSections
    parsedSections,\* the sections parseReportSections returned
    parsePc,       \* parseReportSections: position ("call", "done", "idle")
    file,          \* POST generate: the uploaded file
    rejection,     \* POST generate: the first input check that fails, or "none"
    reqPc,         \* POST generate: position of the handler
    report,        \* the report record of the request (status "none": not created)
    dbSections,    \* the reportSection rows of the report
    extraction,    \* POST generate: the result of extractCoreSheets
    caught,        \* POST generate: the message of the exception caught
    generateCalls, \* number of calls of generateFinancialReport
    writeIdx,      \* POST generate: number of sections already written
    response,      \* POST generate: the response returned
    viewSections,  \* ReportViewer: the sections prop
    activeSection, \* ReportViewer: the state activeSection
    mobileMenuOpen,\* ReportViewer: the state mobileMenuOpen
    clicked,       \* ReportViewer: index of the list entry clicked last, 0 for none
    viewPc,        \* ReportViewer: position ("closed", "open", "idle")
    sectionMarkdown,\* MarkdownContent: the markdown prop
    sectionName,   \* MarkdownContent: the sectionName prop, << >> when it is not given
    narrative,     \* MarkdownContent: the content handed to ReactMarkdown
    special,       \* MarkdownContent: what parseSpecialSections returned
    specialPc,     \* MarkdownContent: position ("call", "done", "idle")
    cellValue,     \* formatFinancialNumber: the value to format
    formatted,     \* formatFinancialNumber: the FormattedNumber returned
    fmtPc,         \* formatFinancialNumber: position ("call", "done", "idle")
    cell,          \* td component: the class names and the text of the cell rendered
    cellPc,        \* td component: position ("call", "done", "idle")
    rowLabel,      \* row classification: the label of the row
    rowClass,      \* row classification: what the classifiers returned
    rowPc,         \* row classification: position ("call", "done", "idle")
    userCompany,   \* user table: the companyId of each user, "null" when unlinked
    userRole,      \* user table: the role of each user
    reportCompany, \* the companyId the report record is created with
    accessLog,     \* accessLog table: the users with a "viewed" row for the report
    getResponse,   \* GET /api/reports/[id] and ReportPage: what the last request got
    patchPc,       \* PATCH publish: position ("idle", "update")
    patchPublished,\* PATCH publish: the published flag of the body
    companyNames,  \* company table: the name of each company, << >> for no row
    companyRequests \* POST and PUT /api/admin/companies: the requests in flight

exVars == <<workbook, maxTokens, targetIdx, result, skipped, exPc>>

parseVars == <<reportContent, parsedSections, parsePc>>

reqVars == <<file, rejection, reqPc, report, dbSections, extraction, caught,
             generateCalls, writeIdx, response>>

viewVars == <<viewSections, activeSection, mobileMenuOpen, clicked, viewPc>>

blockVars == <<sectionMarkdown, sectionName, special, narrative, specialPc>>

fmtVars == <<cellValue, formatted, fmtPc, cell, cellPc>>

rowVars == <<rowLabel, rowClass, rowPc>>

\* the variables of the rendering layer
uiVars == <<viewVars, blockVars, fmtVars, rowVars>>

accessVars == <<userCompany, userRole, reportCompany, accessLog, getResponse,
                patchPc, patchPublished>>

companyVars == <<companyNames, companyRequests>>

\* the variables of the user, access and company handlers
adminVars == <<accessVars, companyVars>>

vars == <<exVars, parseVars, reqVars, uiVars, adminVars>>

-----------------------------------------------------------------------------
(* Strings *)

UpperChars == <<"A","B","C","D","E","F","G","H","I","J","K","L","M","N","O","P","Q","R","S","T","U","V","W","X","Y","Z">>

LowerChars == <<"a","b","c","d","e","f","g","h","i","j","k","l","m","n","o","p","q","r","s","t","u","v","w","x","y","z">>

Min(S) == CHOOSE x \in S : \A y \in S : x <= y

\* upper-case letter -> lower-case letter
LowerOfUpper ==
    [c \in {UpperChars[i] : i \in 1..Len(UpperChars)} |->
        LowerChars[CHOOSE i \in 1..Len(UpperChars) : UpperChars[i] = c]]

\* String.prototype.toLowerCase, one character
toLowerChar(c) == IF c \in DOMAIN LowerOfUpper THEN LowerOfUpper[c] ELSE c

\* String.prototype.toLowerCase
toLowerCase(s) == [i \in 1..Len(s) |-> toLowerChar(s[i])]

\* String.prototype.includes
includes(s, sub) ==
    \E i \in 0..(Len(s) - Len(sub)) : SubSeq(s, i + 1, i + Len(sub)) = sub

\* null, and the empty string: both are falsy in `if (actualName)`
Null == << >>

-----------------------------------------------------------------------------
(* Sheet extractor: src/lib/excel.ts *)

CORE_SHEETS ==
    << <<"P","L"," ","-"," ","R","A","W">>,
       <<"D","y","n","a","m","i","c"," ","P","L">>,
       <<"B","S"," ","-"," ","R","A","W">>,
       <<"W","e","e","k","l","y"," ","F","i","n","a","n","c","i","a","l"," ","R","e","v","i","e","w">>,
       <<"M","o","n","t","h","l","y"," ","C","o","m","p","a","r","a","t","i","v","e">>,
       <<"R","e","v","e","n","u","e"," ","C","h","a","r","t"," ","D","a","t","a">>,
       <<"C","O","A"," ","-"," ","R","A","W">>,
       <<"B","u","d","g","e","t">>,
       <<"F","o","r","e","c","a","s","t">>,
       <<"A","n","n","u","a","l"," ","P","&","L">> >>

\* SHEET_NAME_ALIASES[targetName], undefined (no aliases) for the other names
SHEET_NAME_ALIASES(targetName) ==
    CASE targetName = <<"P","L"," ","-"," ","R","A","W">> ->
           << <<"P","&","L"," ","-"," ","R","A","W">>, <<"P","L","-","R","A","W">>, <<"P","&","L"," ","R","A","W">>, <<"I","n","c","o","m","e"," ","S","t","a","t","e","m","e","n","t">>, <<"P","L"," ","R","a","w">> >>
      [] targetName = <<"D","y","n","a","m","i","c"," ","P","L">> ->
           << <<"D","y","n","a","m","i","c"," ","P","&","L">>, <<"D","y","n","a","m","i","c","P","L">>, <<"F","o","r","m","a","t","t","e","d"," ","P","L">>, <<"P","&","L">> >>
      [] targetName = <<"B","S"," ","-"," ","R","A","W">> ->
           << <<"B","S","-","R","A","W">>, <<"B","S"," ","R","A","W">>, <<"B","a","l","a","n","c","e"," ","S","h","e","e","t">>, <<"B","S"," ","R","a","w">> >>
      [] targetName = <<"W","e","e","k","l","y"," ","F","i","n","a","n","c","i","a","l"," ","R","e","v","i","e","w">> ->
           << <<"W","e","e","k","l","y"," ","R","e","v","i","e","w">>, <<"F","i","n","a","n","c","i","a","l"," ","R","e","v","i","e","w">>, <<"D","a","s","h","b","o","a","r","d">> >>
      [] targetName = <<"M","o","n","t","h","l","y"," ","C","o","m","p","a","r","a","t","i","v","e">> ->
           << <<"M","o","n","t","h","l","y"," ","C","o","m","p","a","r","i","s","o","n">>, <<"M","o","M"," ","C","o","m","p","a","r","a","t","i","v","e">>, <<"C","o","m","p","a","r","a","t","i","v","e">> >>
      [] OTHER -> << >>

\* workbook.SheetNames: a workbook is a sequence of [name, csvLen] tabs
SheetNamesOf(wb) == [i \in 1..Len(wb) |-> wb[i].name]

\* the first sheet name equal to `name` up to letter case, or Null
FirstSheetNamed(sheetNames, name) ==
    LET hits == {i \in 1..Len(sheetNames) :
                    toLowerCase(sheetNames[i]) = toLowerCase(name)}
    IN  IF hits = {} THEN Null ELSE sheetNames[Min(hits)]

findSheetByName(sheetNames, targetName) ==
    LET direct  == FirstSheetNamed(sheetNames, targetName)
        aliases == SHEET_NAME_ALIASES(targetName)
        hits    == {a \in 1..Len(aliases) :
                       FirstSheetNamed(sheetNames, aliases[a]) # Null}
    IN  IF direct # Null THEN direct
        ELSE IF hits = {} THEN Null
        ELSE FirstSheetNamed(sheetNames, aliases[Min(hits)])

\* sheetToCsv(workbook.Sheets[actualName]).length: the csv text is only measured
sheetToCsvLen(wb, actualName) ==
    wb[CHOOSE i \in 1..Len(wb) : wb[i].name = actualName].csvLen

\* Math.ceil(text.length / 4)
estimateTokens(textLen) == (textLen + 3) \div 4

EmptyResult == [sheets |-> << >>, totalTokens |-> 0, missingRequiredSheets |-> << >>]

\* mutant of ExceedsLimit: the running total is left out of the budget test
ExceedsLimitAlone(totalTokens, tokens, limit) == tokens > limit

\* the budget test of the loop body
ExceedsLimit(totalTokens, tokens, limit) == totalTokens + tokens > limit

\* mutant of ExtractOne: the admitted sheet is not added to totalTokens
ExtractOneNoTotal(wb, limit, res, targetName) ==
    LET actualName == findSheetByName(SheetNamesOf(wb), targetName)
        csvLen     == sheetToCsvLen(wb, actualName)
        tokens     == estimateTokens(csvLen)
    IN  IF actualName = Null THEN res
        ELSE IF res.totalTokens + tokens > limit THEN res
        ELSE [res EXCEPT
                !.sheets = Append(@, [name |-> actualName, csvLen |-> csvLen,
                                      estimatedTokens |-> tokens])]

\* the result after the loop body ran for targetName
ExtractOne(wb, limit, res, targetName) ==
    LET actualName == findSheetByName(SheetNamesOf(wb), targetName)
        csvLen     == sheetToCsvLen(wb, actualName)
        tokens     == estimateTokens(csvLen)
    IN  IF actualName = Null THEN res
        ELSE IF ExceedsLimit(res.totalTokens, tokens, limit) THEN res
        ELSE [res EXCEPT
                !.sheets = Append(@, [name |-> actualName, csvLen |-> csvLen,
                                      estimatedTokens |-> tokens]),
                !.totalTokens = @ + tokens]

\* whether the loop body skips targetName with the console warning
SkipsOne(wb, limit, res, targetName) ==
    LET actualName == findSheetByName(SheetNamesOf(wb), targetName)
    IN  /\ actualName # Null
        /\ ExceedsLimit(res.totalTokens,
                        estimateTokens(sheetToCsvLen(wb, actualName)), limit)

requiredSheets == << <<"P","L"," ","-"," ","R","A","W">>, <<"B","S"," ","-"," ","R","A","W">> >>

\* mutant of RequiredFound: each required name is looked for by its own letters
RequiredFoundByName(sheets, required) ==
    \E i \in 1..Len(sheets) :
        includes(toLowerCase(sheets[i].name), toLowerCase(SubSeq(required, 1, 2)))

\* `found` of the required-sheets loop; the test does not read `required`
RequiredFound(sheets, required) ==
    \E i \in 1..Len(sheets) :
        \/ includes(toLowerCase(sheets[i].name), <<"p","l">>)
        \/ includes(toLowerCase(sheets[i].name), <<"b","s">>)

MissingRequired(sheets) ==
    SelectSeq(requiredSheets, LAMBDA required : ~RequiredFound(sheets, required))

\* the result after the first k entries of CORE_SHEETS
RECURSIVE ExtractLoop(_, _, _)
ExtractLoop(wb, limit, k) ==
    IF k = 0 THEN EmptyResult
    ELSE ExtractOne(wb, limit, ExtractLoop(wb, limit, k - 1), CORE_SHEETS[k])

\* extractCoreSheets(buffer, maxTokens) for a readable workbook
extractCoreSheets(wb, limit) ==
    LET res == ExtractLoop(wb, limit, Len(CORE_SHEETS))
    IN  [res EXCEPT !.missingRequiredSheets = MissingRequired(res.sheets)]

-----------------------------------------------------------------------------
(* Workbooks and budgets the extractor is run on *)

MaxSheets == 3

MaxBudget == 3

\* tab names: canonical, alias, other letter case, not a core sheet
SheetNameUniverse ==
    { <<"P","L"," ","-"," ","R","A","W">>, <<"I","n","c","o","m","e"," ","S","t","a","t","e","m","e","n","t">>, <<"b","s"," ","-"," ","r","a","w">>, <<"B","a","l","a","n","c","e"," ","S","h","e","e","t">>,
      <<"D","y","n","a","m","i","c"," ","P","L">>, <<"N","o","t","e","s">> }

\* csv lengths of 1 and 2 estimated tokens
CsvLens == {3, 8}

Tabs == [name : SheetNameUniverse, csvLen : CsvLens]

\* tab names are the keys of workbook.Sheets: pairwise distinct
Workbooks ==
    UNION { {wb \in [1..n -> Tabs] :
                \A i, j \in 1..n : i # j => wb[i].name # wb[j].name} :
            n \in 0..MaxSheets }

Budgets == 1..MaxBudget

ExInit ==
    /\ workbook \in Workbooks
    /\ maxTokens \in Budgets
    /\ targetIdx = 0
    /\ result = EmptyResult
    /\ skipped = << >>
    /\ exPc = "loop"

\* mutant of ExLoopStep: a skip ends the loop (break in place of continue)
ExLoopStepBreak ==
    /\ exPc = "loop"
    /\ targetIdx < Len(CORE_SHEETS)
    /\ LET targetName == CORE_SHEETS[targetIdx + 1]
       IN  /\ result' = ExtractOne(workbook, maxTokens, result, targetName)
           /\ skipped' =
                IF SkipsOne(workbook, maxTokens, result, targetName)
                THEN Append(skipped,
                            findSheetByName(SheetNamesOf(workbook), targetName))
                ELSE skipped
           /\ targetIdx' = IF SkipsOne(workbook, maxTokens, result, targetName)
                           THEN Len(CORE_SHEETS) ELSE targetIdx + 1
    /\ UNCHANGED <<adminVars, uiVars, workbook, maxTokens, exPc, parseVars, reqVars>>

\* one iteration of `for (const targetName of CORE_SHEETS)`
ExLoopStep ==
    /\ exPc = "loop"
    /\ targetIdx < Len(CORE_SHEETS)
    /\ LET targetName == CORE_SHEETS[targetIdx + 1]
       IN  /\ result' = ExtractOne(workbook, maxTokens, result, targetName)
           /\ skipped' =
                IF SkipsOne(workbook, maxTokens, result, targetName)
                THEN Append(skipped,
                            findSheetByName(SheetNamesOf(workbook), targetName))
                ELSE skipped
    /\ targetIdx' = targetIdx + 1
    /\ UNCHANGED <<adminVars, uiVars, workbook, maxTokens, exPc, parseVars, reqVars>>

\* the required-sheets loop and the return
ExCheckRequired ==
    /\ exPc = "loop"
    /\ targetIdx = Len(CORE_SHEETS)
    /\ result' = [result EXCEPT
                    !.missingRequiredSheets = MissingRequired(result.sheets)]
    /\ exPc' = "done"
    /\ UNCHANGED <<adminVars, uiVars, workbook, maxTokens, targetIdx, skipped, parseVars, reqVars>>

ExNext == ExLoopStep \/ ExCheckRequired

-----------------------------------------------------------------------------
(* Helpers of the properties of the extractor *)

RECURSIVE SumTokens(_)
SumTokens(sheets) ==
    IF sheets = << >> THEN 0
    ELSE sheets[Len(sheets)].estimatedTokens
         + SumTokens(SubSeq(sheets, 1, Len(sheets) - 1))

NamesOf(sheets) == [i \in 1..Len(sheets) |-> sheets[i].name]

IsPrefix(s, t) == Len(s) <= Len(t) /\ SubSeq(t, 1, Len(s)) = s

\* s is t with some elements left out, the order kept
RECURSIVE IsSubsequence(_, _)
IsSubsequence(s, t) ==
    IF s = << >> THEN TRUE
    ELSE IF t = << >> THEN FALSE
    ELSE IF Head(s) = Head(t) THEN IsSubsequence(Tail(s), Tail(t))
    ELSE IsSubsequence(s, Tail(t))

\* the tabs the canonical names resolve to, in priority order
ResolvedNames(wb) ==
    SelectSeq([k \in 1..Len(CORE_SHEETS) |->
                  findSheetByName(SheetNamesOf(wb), CORE_SHEETS[k])],
              LAMBDA n : n # Null)

\* the sheets admitted before the first budget skip
AdmittedBeforeSkip(sheets, skips, wb) ==
    IF skips = << >> THEN sheets
    ELSE LET resolved == ResolvedNames(wb)
             at == CHOOSE i \in 1..Len(resolved) : resolved[i] = skips[1]
         IN  SelectSeq(sheets,
                 LAMBDA s : \E i \in 1..(at - 1) : resolved[i] = s.name)

\* the tab a required canonical name resolves to is among the admitted sheets
RequiredAdmitted(wb, sheets, required) ==
    LET actualName == findSheetByName(SheetNamesOf(wb), required)
    IN  actualName # Null /\ \E i \in 1..Len(sheets) : sheets[i].name = actualName

-----------------------------------------------------------------------------
(* Properties of the extractor *)

\* C1 (as claimed): for budgets B1 < B2 the sheets admitted under B1 are, in the
\* same priority order, among the sheets admitted under B2, and each total is
\* within its budget.
C1_SubsetUnderLargerBudget ==
    exPc = "done" =>
        \A B2 \in Budgets : B2 > maxTokens =>
            LET r2 == extractCoreSheets(workbook, B2)
            IN  /\ IsSubsequence(NamesOf(result.sheets), NamesOf(r2.sheets))
                /\ result.totalTokens <= maxTokens
                /\ r2.totalTokens <= B2

\* C1 (amended): for budgets B1 < B2 each total is within its budget, each
\* admitted list is in priority order, and the sheets admitted under B1 before
\* its first budget skip are admitted under B2; a sheet admitted after a skip
\* under B1 need not be admitted under B2.
C1_PrefixUnderLargerBudget ==
    exPc = "done" =>
        \A B2 \in Budgets : B2 > maxTokens =>
            LET r2 == extractCoreSheets(workbook, B2)
            IN  /\ result.totalTokens <= maxTokens
                /\ r2.totalTokens <= B2
                /\ IsSubsequence(NamesOf(result.sheets), ResolvedNames(workbook))
                /\ IsSubsequence(NamesOf(r2.sheets), ResolvedNames(workbook))
                /\ IsSubsequence(
                       NamesOf(AdmittedBeforeSkip(result.sheets, skipped, workbook)),
                       NamesOf(r2.sheets))

\* a run under a budget below the largest one that admitted a sheet after a skip
C1_Witness ==
    /\ exPc = "done"
    /\ maxTokens < MaxBudget
    /\ skipped # << >>
    /\ Len(AdmittedBeforeSkip(result.sheets, skipped, workbook)) < Len(result.sheets)

\* the state part and the step part of C2
C2_StateOk ==
    /\ result.totalTokens = SumTokens(result.sheets)
    /\ result.totalTokens <= maxTokens
    /\ \A i \in 1..Len(result.sheets) :
          result.sheets[i].estimatedTokens * 4 \in
              result.sheets[i].csvLen..(result.sheets[i].csvLen + 3)

C2_StepOk ==
    /\ result'.totalTokens >= result.totalTokens
    /\ IsPrefix(result.sheets, result'.sheets)

\* C2: after every step of the loop and at return totalTokens is the sum of the
\* estimatedTokens of the admitted sheets and is within maxTokens; a step never
\* lowers totalTokens and never removes or changes an admitted sheet.
C2_TotalIsSumWithinBudget ==
    /\ [](exPc \in {"loop", "done"} => C2_StateOk)
    /\ [][C2_StepOk]_exVars

\* a finished run that admitted two sheets, skipped one and used the whole budget
C2_Witness ==
    /\ exPc = "done"
    /\ Len(result.sheets) >= 2
    /\ skipped # << >>
    /\ result.totalTokens = maxTokens

\* C3 (as claimed): missingRequiredSheets lists a required name if and only if the
\* tab that name resolves to was not admitted, each name decided on its own.
C3_MissingIsUnresolvedRequired ==
    exPc = "done" =>
        result.missingRequiredSheets =
            SelectSeq(requiredSheets,
                LAMBDA required :
                    ~RequiredAdmitted(workbook, result.sheets, required))

\* C4 (as claimed): when both primary-statement tabs are present under their
\* canonical name or an alias and both are admitted, missingRequiredSheets is
\* empty.
C4_BothPrimaryPresentNoneMissing ==
    (/\ exPc = "done"
     /\ \A i \in 1..Len(requiredSheets) :
           RequiredAdmitted(workbook, result.sheets, requiredSheets[i]))
        => result.missingRequiredSheets = << >>


\* the step part of C25: the loop goes on to the next canonical name whatever the
\* step did, a skip leaves the result as it was, and a resolved tab that fits the
\* remaining budget is admitted
C25_StepOk ==
    (exPc = "loop" /\ targetIdx < Len(CORE_SHEETS)) =>
        LET actualName == findSheetByName(SheetNamesOf(workbook),
                                          CORE_SHEETS[targetIdx + 1])
        IN  /\ targetIdx' = targetIdx + 1
            /\ exPc' = "loop"
            /\ skipped' # skipped => result' = result
            /\ (/\ actualName # Null
                /\ result.totalTokens
                     + estimateTokens(sheetToCsvLen(workbook, actualName)) <= maxTokens)
                  => NamesOf(result'.sheets) = Append(NamesOf(result.sheets), actualName)

\* C25: when a resolved tab is skipped because it would exceed the budget the
\* extraction does not abort: every remaining canonical name is still attempted
\* in priority order, and a later resolved tab whose cost fits the remaining
\* budget is admitted.
C25_SkipDoesNotAbort ==
    /\ [][C25_StepOk]_exVars
    /\ [](exPc = "done" => targetIdx = Len(CORE_SHEETS))

\* a finished run in which a tab was admitted after another one was skipped
C25_Witness ==
    /\ exPc = "done"
    /\ skipped # << >>
    /\ \E i \in 1..Len(result.sheets), j, k \in 1..Len(ResolvedNames(workbook)) :
          /\ ResolvedNames(workbook)[j] = skipped[1]
          /\ ResolvedNames(workbook)[k] = result.sheets[i].name
          /\ j < k

\* C29: for every workbook and budget missingRequiredSheets is empty or is
\* exactly "PL - RAW", "BS - RAW": both names are decided by one and the same
\* test - some admitted sheet name contains "pl" or "bs" - so one of them is
\* never reported missing without the other.
C29_MissingBothOrNone ==
    exPc = "done" =>
        /\ result.missingRequiredSheets \in {<< >>, << <<"P","L"," ","-"," ","R","A","W">>, <<"B","S"," ","-"," ","R","A","W">> >>}
        /\ result.missingRequiredSheets = << >>
              <=> \E i \in 1..Len(result.sheets) :
                     \/ includes(toLowerCase(result.sheets[i].name), <<"p","l">>)
                     \/ includes(toLowerCase(result.sheets[i].name), <<"b","s">>)

\* a finished run that admitted a sheet with "pl" in its name and none with "bs"
\* in its name, and reports nothing missing
C29_Witness ==
    /\ exPc = "done"
    /\ result.missingRequiredSheets = << >>
    /\ \E i \in 1..Len(result.sheets) :
          includes(toLowerCase(result.sheets[i].name), <<"p","l">>)
    /\ \A i \in 1..Len(result.sheets) :
          ~includes(toLowerCase(result.sheets[i].name), <<"b","s">>)
-----------------------------------------------------------------------------
(* Section parser: parseReportSections of api/admin/reports/generate *)

\* the characters \s matches
IsWhitespace(c) == c \in {" ", "\t", "\n"}

IsDigit(c) == c \in {"0", "1", "2", "3", "4", "5", "6", "7", "8", "9"}

\* String.prototype.trim
trim(s) ==
    LET keep == {i \in 1..Len(s) : ~IsWhitespace(s[i])}
    IN  IF keep = {} THEN << >>
        ELSE SubSeq(s, Min(keep), CHOOSE i \in keep : \A j \in keep : j <= i)

\* String.prototype.indexOf("\n"), counted from 0, -1 when there is none
indexOfNewline(s) ==
    LET at == {i \in 1..Len(s) : s[i] = "\n"}
    IN  IF at = {} THEN -1 ELSE Min(at) - 1

\* the index of the last character of the whitespace run that follows position i
\* (i itself when no whitespace follows)
RECURSIVE WhitespaceRunEnd(_, _)
WhitespaceRunEnd(s, i) ==
    IF i < Len(s) /\ IsWhitespace(s[i + 1]) THEN WhitespaceRunEnd(s, i + 1) ELSE i

\* mutant of HeaderMarkAt: one marker is enough
HeaderMarkAtAnyLevel(s, i) ==
    /\ i = 1 \/ s[i - 1] = "\n"
    /\ i + 2 <= Len(s)
    /\ s[i] = "#"
    /\ s[i + 1] = "#" \/ IsWhitespace(s[i + 1])

\* /^##\s+/m matches at i: a line start, "##", one whitespace character at least
HeaderMarkAt(s, i) ==
    /\ i = 1 \/ s[i - 1] = "\n"
    /\ i + 2 <= Len(s)
    /\ s[i] = "#"
    /\ s[i + 1] = "#"
    /\ IsWhitespace(s[i + 2])

\* markdown.split(/^##\s+/m): the parts from position i on, the first of them
\* starting at partStart
RECURSIVE SplitFrom(_, _, _)
SplitFrom(s, i, partStart) ==
    LET marks == {j \in i..Len(s) : HeaderMarkAt(s, j)}
    IN  IF marks = {} THEN << SubSeq(s, partStart, Len(s)) >>
        ELSE LET m == Min(marks)
                 e == WhitespaceRunEnd(s, m + 2)
             IN  << SubSeq(s, partStart, m - 1) >> \o SplitFrom(s, e + 1, e + 1)

splitOnHeaders(markdown) == SplitFrom(markdown, 1, 1)

\* a pattern is a sequence of alternatives, an alternative a sequence of literals
\* joined by \s*
sectionDefinitions ==
    << [key |-> "executive_snapshot", order |-> 1,
        pattern |-> << << <<"e","x","e","c","u","t","i","v","e">>, <<"s","n","a","p","s","h","o","t">> >> >>],
       [key |-> "revenue_performance", order |-> 2,
        pattern |-> << << <<"r","e","v","e","n","u","e">>, <<"p","e","r","f","o","r","m","a","n","c","e">> >> >>],
       [key |-> "cogs_gross_margin", order |-> 3,
        pattern |-> << << <<"c","o","g","s">> >>, << <<"g","r","o","s","s">>, <<"m","a","r","g","i","n">> >> >>],
       [key |-> "operating_expenses", order |-> 4,
        pattern |-> << << <<"o","p","e","r","a","t","i","n","g">>, <<"e","x","p","e","n","s","e","s">> >> >>],
       [key |-> "profitability_bridges", order |-> 5,
        pattern |-> << << <<"p","r","o","f","i","t","a","b","i","l","i","t","y">> >>, << <<"b","r","i","d","g","e","s">> >> >>],
       [key |-> "variance_performance", order |-> 6,
        pattern |-> << << <<"v","a","r","i","a","n","c","e">> >>, << <<"p","e","r","f","o","r","m","a","n","c","e">> >> >>],
       [key |-> "cash_flow_liquidity", order |-> 7,
        pattern |-> << << <<"c","a","s","h">>, <<"f","l","o","w">> >>, << <<"l","i","q","u","i","d","i","t","y">> >> >>],
       [key |-> "balance_sheet_health", order |-> 8,
        pattern |-> << << <<"b","a","l","a","n","c","e">>, <<"s","h","e","e","t">> >> >>],
       [key |-> "risk_controls", order |-> 9,
        pattern |-> << << <<"r","i","s","k">> >>, << <<"c","o","n","t","r","o","l","s">> >> >>] >>

\* the literals match s from position p on, whitespace allowed between them
RECURSIVE MatchLiterals(_, _, _)
MatchLiterals(lits, s, p) ==
    IF lits = << >> THEN TRUE
    ELSE LET lit == Head(lits)
             q   == p + Len(lit)
         IN  /\ q - 1 <= Len(s)
             /\ SubSeq(s, p, q - 1) = lit
             /\ IF Tail(lits) = << >> THEN TRUE
                ELSE MatchLiterals(Tail(lits), s, WhitespaceRunEnd(s, q - 1) + 1)

\* def.pattern.test(title), the pattern with the i flag
patternTest(pattern, title) ==
    LET s == toLowerCase(title)
    IN  \E a \in 1..Len(pattern) : \E p \in 1..Len(s) :
            MatchLiterals(pattern[a], s, p)

\* title.replace(/^\d+\.\s*/, "")
stripLeadingNumber(title) ==
    LET nonDigits == {i \in 1..Len(title) : ~IsDigit(title[i])}
        d == IF nonDigits = {} THEN Len(title) ELSE Min(nonDigits) - 1
    IN  IF d >= 1 /\ d < Len(title) /\ title[d + 1] = "."
        THEN SubSeq(title, WhitespaceRunEnd(title, d + 1) + 1, Len(title))
        ELSE title

\* `${def.order}` for the orders 1..9
orderText(order) == << <<"0","1","2","3","4","5","6","7","8","9">>[order + 1] >>

\* mutant of sectionOfPart: the content is the text under the heading alone
sectionOfPartBodyOnly(part) ==
    LET firstLineEnd == indexOfNewline(part)
        title   == IF firstLineEnd > 0 THEN trim(SubSeq(part, 1, firstLineEnd))
                   ELSE trim(part)
        content == IF firstLineEnd > 0
                   THEN trim(SubSeq(part, firstLineEnd + 2, Len(part)))
                   ELSE << >>
        hits    == {d \in 1..Len(sectionDefinitions) :
                       patternTest(sectionDefinitions[d].pattern, title)}
    IN  IF hits = {} THEN << >>
        ELSE LET def == sectionDefinitions[Min(hits)]
             IN  << [key     |-> def.key,
                     name    |-> orderText(def.order) \o <<"."," ">> \o stripLeadingNumber(title),
                     order   |-> def.order,
                     content |-> content] >>

\* the section a part (the text after one header mark) gives, or none
sectionOfPart(part) ==
    LET firstLineEnd == indexOfNewline(part)
        title   == IF firstLineEnd > 0 THEN trim(SubSeq(part, 1, firstLineEnd))
                   ELSE trim(part)
        content == IF firstLineEnd > 0
                   THEN trim(SubSeq(part, firstLineEnd + 2, Len(part)))
                   ELSE << >>
        hits    == {d \in 1..Len(sectionDefinitions) :
                       patternTest(sectionDefinitions[d].pattern, title)}
    IN  IF hits = {} THEN << >>
        ELSE LET def == sectionDefinitions[Min(hits)]
             IN  << [key     |-> def.key,
                     name    |-> orderText(def.order) \o <<"."," ">> \o stripLeadingNumber(title),
                     order   |-> def.order,
                     content |-> <<"#","#"," ">> \o title \o <<"\n","\n">> \o content] >>

\* the loop over parts[1..]
RECURSIVE sectionsOfParts(_, _)
sectionsOfParts(parts, i) ==
    IF i > Len(parts) THEN << >>
    ELSE sectionOfPart(parts[i]) \o sectionsOfParts(parts, i + 1)

\* mutant of sortsAfter: the sort leaves the document order
sortsAfterNever(a, b) == FALSE

\* the comparison of sections.sort: a goes after b
sortsAfter(a, b) == a.order - b.order > 0

\* Array.prototype.sort, stable
RECURSIVE sortSections(_)
sortSections(sections) ==
    IF sections = << >> THEN << >>
    ELSE LET sorted == sortSections(SubSeq(sections, 1, Len(sections) - 1))
             x      == sections[Len(sections)]
             before == {i \in 1..Len(sorted) : ~sortsAfter(sorted[i], x)}
             k      == IF before = {} THEN 0
                       ELSE CHOOSE i \in before : \A j \in before : j <= i
         IN  SubSeq(sorted, 1, k) \o << x >> \o SubSeq(sorted, k + 1, Len(sorted))

\* the single section of a document without a recognised header
fallbackSections(markdown) ==
    << [key |-> "full_report", name |-> <<"F","i","n","a","n","c","i","a","l"," ","R","e","v","i","e","w">>, order |-> 1,
        content |-> markdown] >>

\* mutant of needsFallback: the test of markdown.trim() is left out
needsFallbackAlways(sections, markdown) == sections = << >>

\* the condition of the fallback
needsFallback(sections, markdown) == sections = << >> /\ trim(markdown) # << >>

parseReportSections(markdown) ==
    LET sections == sortSections(sectionsOfParts(splitOnHeaders(markdown), 2))
    IN  IF needsFallback(sections, markdown) THEN fallbackSections(markdown)
        ELSE sections

-----------------------------------------------------------------------------
(* Documents the section parser is run on *)

MaxLines == 4

\* lines of a generated document: recognised headers (one with a numeral),
\* a header no pattern matches, narrative text, a blank line
DocLines ==
    { <<"#","#"," ","E","x","e","c","u","t","i","v","e"," ","S","n","a","p","s","h","o","t">>, <<"#","#"," ","2","."," ","R","e","v","e","n","u","e"," ","P","e","r","f","o","r","m","a","n","c","e">>, <<"#","#"," ","R","i","s","k">>,
      <<"#","#"," ","A","p","p","e","n","d","i","x">>, <<"t","e","x","t">>, <<>> }

RECURSIVE JoinLines(_)
JoinLines(lines) ==
    IF lines = << >> THEN << >>
    ELSE IF Len(lines) = 1 THEN lines[1]
    ELSE lines[1] \o << "\n" >> \o JoinLines(Tail(lines))

Documents ==
    UNION { {JoinLines(ls) : ls \in [1..n -> DocLines]} : n \in 0..MaxLines }

ParseInit ==
    /\ reportContent \in Documents
    /\ parsedSections = << >>
    /\ parsePc = "call"

\* const sections = parseReportSections(reportContent)
ParseSections ==
    /\ parsePc = "call"
    /\ parsedSections' = parseReportSections(reportContent)
    /\ parsePc' = "done"
    /\ UNCHANGED <<adminVars, uiVars, reportContent, exVars, reqVars>>

ParseNext == ParseSections

-----------------------------------------------------------------------------
(* Helpers of the properties of the section parser *)

\* the lines of a text
RECURSIVE LinesFrom(_, _, _)
LinesFrom(s, i, lineStart) ==
    LET breaks == {j \in i..Len(s) : s[j] = "\n"}
    IN  IF breaks = {} THEN << SubSeq(s, lineStart, Len(s)) >>
        ELSE LET b == Min(breaks)
             IN  << SubSeq(s, lineStart, b - 1) >> \o LinesFrom(s, b + 1, b + 1)

LinesOf(s) == LinesFrom(s, 1, 1)

Reverse(s) == [i \in 1..Len(s) |-> s[Len(s) + 1 - i]]

KeysOf(secs) == [i \in 1..Len(secs) |-> secs[i].key]

\* the title of a header line "## title"
HeaderTitle(line) == trim(SubSeq(line, 3, Len(line)))

\* the line is a "## " header whose title some canonical pattern matches
IsMatchingHeader(line) ==
    /\ HeaderMarkAt(line, 1)
    /\ \E d \in 1..Len(sectionDefinitions) :
          patternTest(sectionDefinitions[d].pattern, HeaderTitle(line))

\* the canonical index of a key, 0 for a key that is not canonical
CanonicalIndex(key) ==
    IF \E d \in 1..Len(sectionDefinitions) : sectionDefinitions[d].key = key
    THEN CHOOSE d \in 1..Len(sectionDefinitions) : sectionDefinitions[d].key = key
    ELSE 0

\* the number of header lines whose first matching pattern is the d-th
HeaderCount(lines, d) ==
    Cardinality({i \in 1..Len(lines) :
        /\ IsMatchingHeader(lines[i])
        /\ patternTest(sectionDefinitions[d].pattern, HeaderTitle(lines[i]))
        /\ \A e \in 1..(d - 1) :
              ~patternTest(sectionDefinitions[e].pattern, HeaderTitle(lines[i]))})

\* key repeated n times
Repeat(key, n) == [i \in 1..n |-> key]

\* the canonical keys from the d-th on, each as often as its headers occur
RECURSIVE KeysInCanonicalOrder(_, _)
KeysInCanonicalOrder(lines, d) ==
    IF d > Len(sectionDefinitions) THEN << >>
    ELSE Repeat(sectionDefinitions[d].key, HeaderCount(lines, d))
         \o KeysInCanonicalOrder(lines, d + 1)

-----------------------------------------------------------------------------
(* Properties of the section parser *)

\* C8 (as claimed): if no heading of the document matches a canonical pattern,
\* exactly one section is emitted, with the fallback key, sort order 1 and the
\* entire document as content; no document yields zero sections.
C8_FallbackForEveryDocument ==
    parsePc = "done" =>
        /\ Len(parsedSections) >= 1
        /\ (\A i \in 1..Len(LinesOf(reportContent)) :
               ~IsMatchingHeader(LinesOf(reportContent)[i]))
              => parsedSections = << [key |-> "full_report", name |-> <<"F","i","n","a","n","c","i","a","l"," ","R","e","v","i","e","w">>,
                               order |-> 1, content |-> reportContent] >>

\* C8 (amended): if no heading matches a canonical pattern and the document holds
\* a character that is not whitespace, exactly one section is emitted, with the
\* fallback key, sort order 1 and the entire document as content; a document of
\* whitespace only yields no section, and only such a document does.
C8_FallbackUnlessBlank ==
    parsePc = "done" =>
        /\ (parsedSections = << >>) <=> (trim(reportContent) = << >>)
        /\ (/\ trim(reportContent) # << >>
            /\ \A i \in 1..Len(LinesOf(reportContent)) :
                  ~IsMatchingHeader(LinesOf(reportContent)[i]))
              => parsedSections = << [key |-> "full_report", name |-> <<"F","i","n","a","n","c","i","a","l"," ","R","e","v","i","e","w">>,
                               order |-> 1, content |-> reportContent] >>

\* a parsed document with text and an unrecognised header, and no recognised one
C8_Witness ==
    /\ parsePc = "done"
    /\ Len(LinesOf(reportContent)) >= 2
    /\ \E i \in 1..Len(LinesOf(reportContent)) : LinesOf(reportContent)[i] = <<"#","#"," ","A","p","p","e","n","d","i","x">>
    /\ \A i \in 1..Len(LinesOf(reportContent)) : ~IsMatchingHeader(LinesOf(reportContent)[i])

\* C9 (as claimed): every line of the document that is not blank appears in the
\* content of some emitted section.
C9_NoLineDropped ==
    parsePc = "done" =>
        \A i \in 1..Len(LinesOf(reportContent)) :
            trim(LinesOf(reportContent)[i]) # << >> =>
                \E k \in 1..Len(parsedSections) :
                    includes(parsedSections[k].content, LinesOf(reportContent)[i])

\* C10: the returned sequence is sorted by sort order, the sort order of a section
\* with a canonical key is the fixed index of that key, and the keys returned are
\* the canonical keys of the recognised headers in canonical order - the same
\* when the lines of the document are taken in the reverse order.
C10_CanonicalOrder ==
    parsePc = "done" =>
        /\ \A i, j \in 1..Len(parsedSections) :
              i < j => parsedSections[i].order <= parsedSections[j].order
        /\ \A i \in 1..Len(parsedSections) :
              \/ parsedSections[i].order = CanonicalIndex(parsedSections[i].key)
              \/ parsedSections = fallbackSections(reportContent)
        /\ (\E i \in 1..Len(LinesOf(reportContent)) : IsMatchingHeader(LinesOf(reportContent)[i]))
              => /\ KeysOf(parsedSections) = KeysInCanonicalOrder(LinesOf(reportContent), 1)
                 /\ KeysOf(parseReportSections(JoinLines(Reverse(LinesOf(reportContent)))))
                        = KeysOf(parsedSections)

\* a parsed document whose recognised headers are not in canonical order
C10_Witness ==
    /\ parsePc = "done"
    /\ Len(parsedSections) >= 2
    /\ KeysOf(sectionsOfParts(splitOnHeaders(reportContent), 2)) # KeysOf(parsedSections)

-----------------------------------------------------------------------------
(* Generation request: POST /api/admin/reports/generate *)

\* maxTokens: number = 150000
DEFAULT_MAX_TOKENS == 150000

\* the message of an exception thrown by XLSX.read, by the generation call and
\* by a database write
XlsxErrorMessage == <<"U","n","s","u","p","p","o","r","t","e","d"," ","f","i","l","e">>

GenerationErrorMessage == <<"F","a","i","l","e","d"," ","t","o"," ","g","e","n","e","r","a","t","e"," ","r","e","p","o","r","t",":"," ","U","n","k","n","o","w","n"," ","e","r","r","o","r">>

DbErrorMessage == <<"C","a","n","'","t"," ","r","e","a","c","h"," ","d","a","t","a","b","a","s","e"," ","s","e","r","v","e","r">>

\* Array.prototype.join(", ")
RECURSIVE joinNames(_)
joinNames(names) ==
    IF names = << >> THEN << >>
    ELSE IF Len(names) = 1 THEN names[1]
    ELSE names[1] \o <<","," ">> \o joinNames(Tail(names))

\* `Missing required sheets: ${extraction.missingRequiredSheets.join(", ")}`
MissingSheetsMessage(missing) == <<"M","i","s","s","i","n","g"," ","r","e","q","u","i","r","e","d"," ","s","h","e","e","t","s",":"," ">> \o joinNames(missing)

\* the early returns before the report record is created, in the order of the
\* checks: the first check that fails decides the response
Rejections ==
    [unauthorized      |-> [status |-> 401, error |-> <<"U","n","a","u","t","h","o","r","i","z","e","d">>],
     not_admin         |-> [status |-> 403, error |-> <<"A","d","m","i","n"," ","a","c","c","e","s","s"," ","r","e","q","u","i","r","e","d">>],
     no_company_id     |-> [status |-> 400, error |-> <<"C","o","m","p","a","n","y"," ","I","D"," ","i","s"," ","r","e","q","u","i","r","e","d">>],
     no_period_end     |-> [status |-> 400, error |-> <<"P","e","r","i","o","d"," ","e","n","d"," ","d","a","t","e"," ","i","s"," ","r","e","q","u","i","r","e","d">>],
     no_file           |-> [status |-> 400, error |-> <<"E","x","c","e","l"," ","f","i","l","e"," ","i","s"," ","r","e","q","u","i","r","e","d">>],
     bad_file_type     |-> [status |-> 400,
                            error |-> <<"F","i","l","e"," ","m","u","s","t"," ","b","e"," ","a","n"," ","E","x","c","e","l"," ","f","i","l","e"," ","(",".","x","l","s","x"," ","o","r"," ",".","x","l","s",")">>],
     company_not_found |-> [status |-> 404, error |-> <<"C","o","m","p","a","n","y"," ","n","o","t"," ","f","o","u","n","d">>],
     bad_period_end    |-> [status |-> 400, error |-> <<"I","n","v","a","l","i","d"," ","p","e","r","i","o","d"," ","e","n","d"," ","d","a","t","e">>]]

NoReport == [status |-> "none", published |-> FALSE, errorMessage |-> << >>,
             sourceFileUrl |-> << >>]

NoResponse == [status |-> 0, success |-> FALSE, error |-> << >>]

\* NextResponse.json({success: false, error}, {status})
ErrorResponse(status, error) == [status |-> status, success |-> FALSE, error |-> error]

\* mutant of AfterExtraction: the test of missingRequiredSheets is left out
AfterExtractionGenerate(ext) == "generate"

\* where the handler goes after extractCoreSheets returned
AfterExtraction(ext) ==
    IF Len(ext.missingRequiredSheets) > 0 THEN "missing" ELSE "generate"

\* the row prisma.reportSection.create writes for a parsed section
SectionRow(section) ==
    [sectionKey |-> section.key, sectionName |-> section.name,
     sortOrder |-> section.order, raw_markdown |-> section.content]

\* the uploads of a request: bytes XLSX.read cannot read, or a workbook of up to
\* MaxGenSheets tabs (none included)
MaxGenSheets == 2

GenTabs == [name : SheetNameUniverse, csvLen : {8}]

GenWorkbooks ==
    UNION { {wb \in [1..n -> GenTabs] :
                \A i, j \in 1..n : i # j => wb[i].name # wb[j].name} :
            n \in 0..MaxGenSheets }

GenFiles ==
    {[readable |-> FALSE, workbook |-> << >>]}
        \cup {[readable |-> TRUE, workbook |-> wb] : wb \in GenWorkbooks}

\* the documents the generation call returns: empty, whitespace only, without a
\* header, with recognised headers in and out of canonical order, with text
\* before the first header and under a header no pattern matches
GenDocuments ==
    { <<>>, <<" ","\n">>, <<"t","e","x","t">>, <<"#","#"," ","R","i","s","k","\n","t","e","x","t">>,
      <<"#","#"," ","R","i","s","k","\n","t","e","x","t","\n","#","#"," ","E","x","e","c","u","t","i","v","e"," ","S","n","a","p","s","h","o","t","\n","t","e","x","t">>,
      <<"t","e","x","t","\n","#","#"," ","A","p","p","e","n","d","i","x","\n","t","e","x","t","\n","#","#"," ","2","."," ","R","e","v","e","n","u","e"," ","P","e","r","f","o","r","m","a","n","c","e","\n","t","e","x","t">>,
      <<"#","#"," ","R","i","s","k","\n","t","e","x","t","\n","#","#"," ","C","o","n","t","r","o","l","s","\n","m","o","r","e">> }

ReqInit ==
    /\ file \in GenFiles
    /\ rejection \in {"none"} \cup DOMAIN Rejections
    /\ reqPc = "start"
    /\ report = NoReport
    /\ dbSections = << >>
    /\ extraction = EmptyResult
    /\ caught = << >>
    /\ generateCalls = 0
    /\ writeIdx = 0
    /\ response = NoResponse

\* an early return: no report record is created
ReqReject ==
    /\ reqPc = "start"
    /\ rejection # "none"
    /\ response' = ErrorResponse(Rejections[rejection].status, Rejections[rejection].error)
    /\ reqPc' = "responded"
    /\ UNCHANGED <<adminVars, uiVars, file, rejection, report, dbSections, extraction, caught,
                   generateCalls, writeIdx, parseVars, exVars>>

\* prisma.report.create with status "processing"
ReqCreateReport ==
    /\ reqPc = "start"
    /\ rejection = "none"
    /\ report' = [NoReport EXCEPT !.status = "processing"]
    /\ reqPc' = "upload"
    /\ UNCHANGED <<adminVars, uiVars, file, rejection, dbSections, extraction, caught, generateCalls,
                   writeIdx, response, parseVars, exVars>>

\* prisma.report.create throws: the outer catch answers
ReqCreateReportThrows ==
    /\ reqPc = "start"
    /\ rejection = "none"
    /\ response' = ErrorResponse(500, <<"F","a","i","l","e","d"," ","t","o"," ","g","e","n","e","r","a","t","e"," ","r","e","p","o","r","t">>)
    /\ reqPc' = "responded"
    /\ UNCHANGED <<adminVars, uiVars, file, rejection, report, dbSections, extraction, caught,
                   generateCalls, writeIdx, parseVars, exVars>>

\* uploadFile and the update of sourceFileUrl succeed
ReqUpload ==
    /\ reqPc = "upload"
    /\ report' = [report EXCEPT !.sourceFileUrl = <<"r","e","p","o","r","t","s","/","c","1","/","r","1","/","s","o","u","r","c","e",".","x","l","s","x">>]
    /\ reqPc' = "extract"
    /\ UNCHANGED <<adminVars, uiVars, file, rejection, dbSections, extraction, caught, generateCalls,
                   writeIdx, response, parseVars, exVars>>

\* uploadFile or the update throws: caught, the request continues without storage
ReqUploadSkipped ==
    /\ reqPc = "upload"
    /\ reqPc' = "extract"
    /\ UNCHANGED <<adminVars, uiVars, file, rejection, report, dbSections, extraction, caught,
                   generateCalls, writeIdx, response, parseVars, exVars>>

\* extractCoreSheets(fileBuffer) returns
ReqExtract ==
    /\ reqPc = "extract"
    /\ file.readable
    /\ extraction' = extractCoreSheets(file.workbook, DEFAULT_MAX_TOKENS)
    /\ reqPc' = AfterExtraction(extraction')
    /\ UNCHANGED <<adminVars, uiVars, file, rejection, report, dbSections, caught, generateCalls,
                   writeIdx, response, parseVars, exVars>>

\* XLSX.read throws on bytes it cannot read
ReqExtractThrows ==
    /\ reqPc = "extract"
    /\ ~file.readable
    /\ caught' = XlsxErrorMessage
    /\ reqPc' = "catch"
    /\ UNCHANGED <<adminVars, uiVars, file, rejection, report, dbSections, extraction, generateCalls,
                   writeIdx, response, parseVars, exVars>>

\* missing required sheets: the report is marked failed, the response is 400
ReqMarkMissing ==
    /\ reqPc = "missing"
    /\ report' = [report EXCEPT
           !.status = "failed",
           !.errorMessage = MissingSheetsMessage(extraction.missingRequiredSheets)]
    /\ response' = ErrorResponse(400,
                       MissingSheetsMessage(extraction.missingRequiredSheets))
    /\ reqPc' = "responded"
    /\ UNCHANGED <<adminVars, uiVars, file, rejection, dbSections, extraction, caught, generateCalls,
                   writeIdx, parseVars, exVars>>

\* the update that marks the report failed throws
ReqMarkMissingThrows ==
    /\ reqPc = "missing"
    /\ caught' = DbErrorMessage
    /\ reqPc' = "catch"
    /\ UNCHANGED <<adminVars, uiVars, file, rejection, report, dbSections, extraction, generateCalls,
                   writeIdx, response, parseVars, exVars>>

\* generateFinancialReport returns the generated document
ReqGenerate ==
    /\ reqPc = "generate"
    /\ generateCalls' = generateCalls + 1
    /\ reportContent' \in GenDocuments
    /\ reqPc' = "parse"
    /\ UNCHANGED <<adminVars, uiVars, file, rejection, report, dbSections, extraction, caught,
                   writeIdx, response, parsedSections, parsePc, exVars>>

\* generateFinancialReport throws
ReqGenerateThrows ==
    /\ reqPc = "generate"
    /\ generateCalls' = generateCalls + 1
    /\ caught' = GenerationErrorMessage
    /\ reqPc' = "catch"
    /\ UNCHANGED <<adminVars, uiVars, file, rejection, report, dbSections, extraction, writeIdx,
                   response, parseVars, exVars>>

\* const sections = parseReportSections(reportContent)
ReqParse ==
    /\ reqPc = "parse"
    /\ parsedSections' = parseReportSections(reportContent)
    /\ writeIdx' = 0
    /\ reqPc' = "write"
    /\ UNCHANGED <<adminVars, uiVars, file, rejection, report, dbSections, extraction, caught,
                   generateCalls, response, reportContent, parsePc, exVars>>

\* one iteration of the loop of prisma.reportSection.create
ReqWriteSection ==
    /\ reqPc = "write"
    /\ writeIdx < Len(parsedSections)
    /\ dbSections' = Append(dbSections, SectionRow(parsedSections[writeIdx + 1]))
    /\ writeIdx' = writeIdx + 1
    /\ UNCHANGED <<adminVars, uiVars, file, rejection, report, extraction, caught, generateCalls,
                   response, reqPc, parseVars, exVars>>

\* prisma.reportSection.create throws
ReqWriteSectionThrows ==
    /\ reqPc = "write"
    /\ writeIdx < Len(parsedSections)
    /\ caught' = DbErrorMessage
    /\ reqPc' = "catch"
    /\ UNCHANGED <<adminVars, uiVars, file, rejection, report, dbSections, extraction, generateCalls,
                   writeIdx, response, parseVars, exVars>>

\* mutant of ReqComplete: the update does not wait for the end of the loop
ReqCompleteEarly ==
    /\ reqPc = "write"
    /\ report' = [report EXCEPT !.status = "complete", !.published = TRUE]
    /\ response' = [status |-> 200, success |-> TRUE, error |-> << >>]
    /\ reqPc' = "responded"
    /\ UNCHANGED <<adminVars, uiVars, file, rejection, dbSections, extraction, caught, generateCalls,
                   writeIdx, parseVars, exVars>>

\* the update to status "complete", published, and the success response
ReqComplete ==
    /\ reqPc = "write"
    /\ writeIdx = Len(parsedSections)
    /\ report' = [report EXCEPT !.status = "complete", !.published = TRUE]
    /\ response' = [status |-> 200, success |-> TRUE, error |-> << >>]
    /\ reqPc' = "responded"
    /\ UNCHANGED <<adminVars, uiVars, file, rejection, dbSections, extraction, caught, generateCalls,
                   writeIdx, parseVars, exVars>>

\* the update to status "complete" throws
ReqCompleteThrows ==
    /\ reqPc = "write"
    /\ writeIdx = Len(parsedSections)
    /\ caught' = DbErrorMessage
    /\ reqPc' = "catch"
    /\ UNCHANGED <<adminVars, uiVars, file, rejection, report, dbSections, extraction, generateCalls,
                   writeIdx, response, parseVars, exVars>>

\* catch (processingError): the report is marked failed, the response is 500
ReqCatchMarkFailed ==
    /\ reqPc = "catch"
    /\ report' = [report EXCEPT !.status = "failed", !.errorMessage = caught]
    /\ response' = ErrorResponse(500, <<"F","a","i","l","e","d"," ","t","o"," ","p","r","o","c","e","s","s"," ","r","e","p","o","r","t">>)
    /\ reqPc' = "responded"
    /\ UNCHANGED <<adminVars, uiVars, file, rejection, dbSections, extraction, caught, generateCalls,
                   writeIdx, parseVars, exVars>>

\* the update inside the catch throws: the outer catch answers
ReqCatchThrows ==
    /\ reqPc = "catch"
    /\ response' = ErrorResponse(500, <<"F","a","i","l","e","d"," ","t","o"," ","g","e","n","e","r","a","t","e"," ","r","e","p","o","r","t">>)
    /\ reqPc' = "responded"
    /\ UNCHANGED <<adminVars, uiVars, file, rejection, report, dbSections, extraction, caught,
                   generateCalls, writeIdx, parseVars, exVars>>

ReqNext ==
    \/ ReqReject
    \/ ReqCreateReport
    \/ ReqCreateReportThrows
    \/ ReqUpload
    \/ ReqUploadSkipped
    \/ ReqExtract
    \/ ReqExtractThrows
    \/ ReqMarkMissing
    \/ ReqMarkMissingThrows
    \/ ReqGenerate
    \/ ReqGenerateThrows
    \/ ReqParse
    \/ ReqWriteSection
    \/ ReqWriteSectionThrows
    \/ ReqComplete
    \/ ReqCompleteThrows
    \/ ReqCatchMarkFailed
    \/ ReqCatchThrows

-----------------------------------------------------------------------------
(* Properties of the generation request *)

startsWith(s, prefix) == Len(prefix) <= Len(s) /\ SubSeq(s, 1, Len(prefix)) = prefix

C6_FailedReportHasNoSections ==
    reqPc = "responded" =>
        /\ (report.status # "none" /\ ~response.success) =>
              report.status = "failed" /\ dbSections = << >>
        /\ dbSections # << >> => report.status = "complete"

\* C7 (as claimed): a workbook that cannot be read, or has no tab, ends the request
\* with a failure that is not the missing-required-sheets failure, and the
\* generation call is not made.
C7_UnreadableIsNotMissingSheets ==
    (/\ reqPc = "responded"
     /\ report.status # "none"
     /\ ~file.readable \/ Len(file.workbook) = 0)
        => /\ generateCalls = 0
           /\ ~response.success
           /\ ~startsWith(response.error, <<"M","i","s","s","i","n","g"," ","r","e","q","u","i","r","e","d"," ","s","h","e","e","t","s">>)
           /\ ~startsWith(report.errorMessage, <<"M","i","s","s","i","n","g"," ","r","e","q","u","i","r","e","d"," ","s","h","e","e","t","s">>)


\* C26: in every generation request the steps occur in the order extraction, at
\* most one generation call, section parsing, section writes: the generation
\* call is made only after extraction succeeded, no section is written before
\* the generation call has returned, and the report is set to "complete" and
\* published only after every parsed section has been written.
C26_PipelineOrder ==
    /\ generateCalls \in {0, 1}
    /\ generateCalls = 1 =>
          /\ file.readable
          /\ extraction = extractCoreSheets(file.workbook, DEFAULT_MAX_TOKENS)
          /\ extraction.missingRequiredSheets = << >>
    /\ dbSections # << >> =>
          /\ generateCalls = 1
          /\ reportContent \in GenDocuments
          /\ parsedSections = parseReportSections(reportContent)
          /\ Len(dbSections) <= Len(parsedSections)
          /\ \A i \in 1..Len(dbSections) : dbSections[i] = SectionRow(parsedSections[i])
    /\ (report.status = "complete" \/ report.published) =>
          /\ report.status = "complete"
          /\ report.published
          /\ generateCalls = 1
          /\ parsedSections = parseReportSections(reportContent)
          /\ Len(dbSections) = Len(parsedSections)

\* a request that completed the report after it wrote two sections
C26_Witness ==
    /\ report.status = "complete"
    /\ Len(dbSections) >= 2
    /\ reqPc = "responded"
-----------------------------------------------------------------------------
(* Report viewer: the report page and ReportViewer of components/empty-state.tsx *)

\* sections: { orderBy: { sortOrder: "asc" } } on rows kept in the order written
RECURSIVE orderBySortOrder(_)
orderBySortOrder(rows) ==
    IF rows = << >> THEN << >>
    ELSE LET sorted == orderBySortOrder(SubSeq(rows, 1, Len(rows) - 1))
             x      == rows[Len(rows)]
             before == {i \in 1..Len(sorted) : sorted[i].sortOrder <= x.sortOrder}
             k      == IF before = {} THEN 0
                       ELSE CHOOSE i \in before : \A j \in before : j <= i
         IN  SubSeq(sorted, 1, k) \o << x >> \o SubSeq(sorted, k + 1, Len(sorted))

\* sections.findIndex((s) => s.sectionKey === key), counted from 0, -1 for none
findIndexByKey(sections, key) ==
    LET at == {i \in 1..Len(sections) : sections[i].sectionKey = key}
    IN  IF at = {} THEN -1 ELSE Min(at) - 1

currentIndex == findIndexByKey(viewSections, activeSection)

ViewInit ==
    /\ viewSections = << >>
    /\ activeSection = ""
    /\ mobileMenuOpen = FALSE
    /\ clicked = 0
    /\ viewPc = "closed"

\* the page finds the published report with sections and mounts ReportViewer
ViewOpen ==
    /\ viewPc = "closed"
    /\ report.published
    /\ Len(dbSections) # 0
    /\ viewSections' = orderBySortOrder(dbSections)
    /\ activeSection' = orderBySortOrder(dbSections)[1].sectionKey
    /\ viewPc' = "open"
    /\ UNCHANGED <<adminVars, mobileMenuOpen, clicked, exVars, parseVars, reqVars,
                   blockVars, fmtVars, rowVars>>

\* onClick of the mobile dropdown button
ViewToggleMenu ==
    /\ viewPc = "open"
    /\ mobileMenuOpen' = ~mobileMenuOpen
    /\ UNCHANGED <<adminVars, viewSections, activeSection, clicked, viewPc, exVars, parseVars, reqVars,
                   blockVars, fmtVars, rowVars>>

\* onClick of the i-th entry of the mobile dropdown
ViewSelectMobile(i) ==
    /\ viewPc = "open"
    /\ mobileMenuOpen
    /\ activeSection' = viewSections[i].sectionKey
    /\ mobileMenuOpen' = FALSE
    /\ clicked' = i
    /\ UNCHANGED <<adminVars, viewSections, viewPc, exVars, parseVars, reqVars,
                   blockVars, fmtVars, rowVars>>

\* onClick of the i-th entry of the desktop sidebar
ViewSelectDesktop(i) ==
    /\ viewPc = "open"
    /\ activeSection' = viewSections[i].sectionKey
    /\ clicked' = i
    /\ UNCHANGED <<adminVars, viewSections, mobileMenuOpen, viewPc, exVars, parseVars, reqVars,
                   blockVars, fmtVars, rowVars>>

ViewNext ==
    \/ ViewOpen
    \/ ViewToggleMenu
    \/ \E i \in 1..Len(viewSections) : ViewSelectMobile(i)
    \/ \E i \in 1..Len(viewSections) : ViewSelectDesktop(i)

\* C12 (as claimed): the section rows of one report have pairwise distinct keys;
\* in the viewer the section displayed after a click on a list entry is the
\* section of that entry, and the active key denotes exactly one section.
C12_KeysDistinctSelectionShows ==
    /\ \A i, j \in 1..Len(dbSections) :
          i # j => dbSections[i].sectionKey # dbSections[j].sectionKey
    /\ viewPc = "open" =>
          /\ Cardinality({i \in 1..Len(viewSections) :
                             viewSections[i].sectionKey = activeSection}) = 1
          /\ clicked # 0 => currentIndex + 1 = clicked

-----------------------------------------------------------------------------
(* Special blocks: parseSpecialSections of components/report-section.tsx *)

\* A character outside ASCII is written by its name; it is one element of a
\* string like every other character.
BulletDot == "bullet"

\* [-*(bullet)]
IsListMark(c) == c \in {"-", "*", BulletDot}

Max(S) == CHOOSE x \in S : \A y \in S : y <= x

\* The matchers below take a position p of the text (0: the match has failed
\* before) and give the position after what they matched, 0 when they fail.

\* a literal, the text in lower case (flag i)
LitEnd(ls, p, lit) ==
    IF p >= 1 /\ p + Len(lit) - 1 <= Len(ls) /\ SubSeq(ls, p, p + Len(lit) - 1) = lit
    THEN p + Len(lit) ELSE 0

\* an alternative: the first branch when it matches, else the second one
OrElse(first, second) == IF first # 0 THEN first ELSE second

\* the least position of a set of positions, 0 when there is none
MinOrZero(S) == IF S = {} THEN 0 ELSE Min(S)

\* (?:lit)?
OptLitEnd(ls, p, lit) == IF p = 0 THEN 0 ELSE OrElse(LitEnd(ls, p, lit), p)

\* \s+
Ws1End(s, p) ==
    IF p >= 1 /\ p <= Len(s) /\ IsWhitespace(s[p]) THEN WhitespaceRunEnd(s, p) + 1 ELSE 0

\* \d*
DigitRunEnd(s, p) ==
    LET stop == {i \in p..Len(s) : ~IsDigit(s[i])}
    IN  IF stop = {} THEN Len(s) + 1 ELSE Min(stop)

\* [:\s]*
ColonSpaceRunEnd(s, p) ==
    LET stop == {i \in p..Len(s) : ~(s[i] = ":" \/ IsWhitespace(s[i]))}
    IN  IF stop = {} THEN Len(s) + 1 ELSE Min(stop)

\* (?:#{1,4}\s*)?(?:\*\*)? : more than four markers cannot be passed
HeadingPrefixEnd(s, p) ==
    LET stop   == {i \in p..Len(s) : s[i] # "#"}
        hashes == (IF stop = {} THEN Len(s) + 1 ELSE Min(stop)) - p
    IN  IF hashes > 4 THEN 0
        ELSE OptLitEnd(s, IF hashes = 0 THEN p
                          ELSE WhitespaceRunEnd(s, p + hashes - 1) + 1, <<"*","*">>)

\* Key\s+Takeaways
TakeawaysWordsEnd(ls, p) == LitEnd(ls, Ws1End(ls, LitEnd(ls, p, <<"k","e","y">>)), <<"t","a","k","e","a","w","a","y","s">>)

\* Questions?\s+(?:for\s+)?Management
ForManagementEnd(ls, b) ==
    OrElse(LitEnd(ls, Ws1End(ls, LitEnd(ls, b, <<"f","o","r">>)), <<"m","a","n","a","g","e","m","e","n","t">>),
           LitEnd(ls, b, <<"m","a","n","a","g","e","m","e","n","t">>))

QuestionsWordsEnd(ls, p) ==
    ForManagementEnd(ls, Ws1End(ls, OptLitEnd(ls, LitEnd(ls, p, <<"q","u","e","s","t","i","o","n">>), <<"s">>)))

\* (?:\d+\.?\d*\s+)?
FractionEnd(s, p, d) ==
    IF d > p
    THEN OrElse(Ws1End(s, DigitRunEnd(s, IF d <= Len(s) /\ s[d] = "." THEN d + 1
                                         ELSE d)), p)
    ELSE p

NumberPrefixEnd(s, p) == FractionEnd(s, p, DigitRunEnd(s, p))

\* (?:\d+\.?\d*\s+)?(?:Top\s+)?Executive\s+(?:Insights?|Summary)
\* (?:Top\s+)?
TopEnd(ls, n) == OrElse(Ws1End(ls, LitEnd(ls, n, <<"t","o","p">>)), n)

\* (?:Insights?|Summary)
InsightsOrSummaryEnd(ls, e) ==
    OrElse(OptLitEnd(ls, LitEnd(ls, e, <<"i","n","s","i","g","h","t">>), <<"s">>),
           LitEnd(ls, e, <<"s","u","m","m","a","r","y">>))

InsightsWordsEnd(ls, p) ==
    InsightsOrSummaryEnd(ls, Ws1End(ls, LitEnd(ls, TopEnd(ls, NumberPrefixEnd(ls, p)),
                                               <<"e","x","e","c","u","t","i","v","e">>)))

\* the three block patterns: sectionPattern, takeawaysPattern, questionsPattern
WordsEnd(pattern, ls, p) ==
    IF p = 0 THEN 0
    ELSE CASE pattern = "sectionPattern"   -> InsightsWordsEnd(ls, p)
           [] pattern = "takeawaysPattern" -> TakeawaysWordsEnd(ls, p)
           [] pattern = "questionsPattern" -> QuestionsWordsEnd(ls, p)

\* the index of the last character of the list marker at p, 0 when there is none:
\* (?:\d+\.|[-(bullet)*]) , [-*(bullet)] , [-*(bullet)?]
DotAt(s, d) == IF d <= Len(s) /\ s[d] = "." THEN d ELSE 0

MarkerLast(pattern, s, p) ==
    IF p < 1 \/ p > Len(s) THEN 0
    ELSE IF pattern = "sectionPattern" /\ IsDigit(s[p])
         THEN DotAt(s, DigitRunEnd(s, p))
    ELSE IF IsListMark(s[p]) \/ (pattern = "questionsPattern" /\ s[p] = "?")
         THEN p
    ELSE 0

\* the least number of whitespace characters after the marker: \s+ or \s*
MinSpace(pattern) == IF pattern = "sectionPattern" THEN 1 ELSE 0

\* the index of the last character of the line that position i is in
LineLast(s, i) ==
    LET breaks == {j \in i..Len(s) : s[j] = "\n"}
    IN  IF breaks = {} THEN Len(s) ELSE Min(breaks) - 1

\* marker, whitespace, .+ at p: the index of the last character of .+ , 0 when
\* there is no match. The whitespace is greedy and gives back until a character
\* other than a line break is left for .+
TextLast(s, ks) == IF ks = {} THEN 0 ELSE LineLast(s, Max(ks) + 1)

ItemAfterMarker(pattern, s, m) ==
    IF m = 0 THEN 0
    ELSE TextLast(s, {k \in (m + MinSpace(pattern))..WhitespaceRunEnd(s, m) :
                         k + 1 <= Len(s) /\ s[k + 1] # "\n"})

ItemLast(pattern, s, p) == ItemAfterMarker(pattern, s, MarkerLast(pattern, s, p))

\* ((?: item (?:\n|$))+) from b: the position after the block, b when no item
\* matches at b
RECURSIVE BlockEnd(_, _, _)
BlockAfterItem(pattern, s, b, e) ==
    IF e = 0 THEN b
    ELSE IF e = Len(s) THEN Len(s) + 1
    ELSE BlockEnd(pattern, s, e + 2)

BlockEnd(pattern, s, b) == BlockAfterItem(pattern, s, b, ItemLast(pattern, s, b))

\* the least number of characters in the parentheses: [^)]* or [^)]+
MinQualifier(pattern) == IF pattern = "sectionPattern" THEN 0 ELSE 1

\* (?:\*\*)?[:\s]*(?:\([^)]+\))?\s*\n from p: the position of the first list
\* marker, which a line break precedes; 0 when there is no match
AfterLineBreak(s, b) == IF b # 0 /\ s[b - 1] = "\n" THEN b ELSE 0

\* \s* after the closing parenthesis at c: at least the line break
SpaceAfterClose(s, c, e) == IF e = c THEN 0 ELSE e + 1

\* (?:\([^)]+\))?\s* from p6, which the run [:\s]* from p5 has reached
QualifierEnd(pattern, s, p5, p6, close) ==
    IF p6 <= Len(s) /\ s[p6] = "("
    THEN (IF close = 0 \/ close - p6 - 1 < MinQualifier(pattern) THEN 0
          ELSE SpaceAfterClose(s, close, WhitespaceRunEnd(s, close)))
    ELSE IF p6 > p5 THEN p6 ELSE 0

ColonSpaceRest(pattern, s, p5, p6) ==
    QualifierEnd(pattern, s, p5, p6,
                 MinOrZero({i \in (p6 + 1)..Len(s) : s[i] = ")"}))

BoldCloseRest(pattern, s, p5) ==
    ColonSpaceRest(pattern, s, p5, ColonSpaceRunEnd(s, p5))

HeaderRestEnd(pattern, s, p) ==
    IF p = 0 THEN 0
    ELSE AfterLineBreak(s, BoldCloseRest(pattern, s, OptLitEnd(s, p, <<"*","*">>)))

\* the pattern at p: the position after the match, 0 when it does not match there
\* ( ... )+ : at least one item
NonEmptyBlock(b, e) == IF b = 0 \/ e = b THEN 0 ELSE e

BlockFrom(pattern, s, b) == NonEmptyBlock(b, BlockEnd(pattern, s, b))

PatternEndAt(pattern, s, p) ==
    BlockFrom(pattern, s,
              HeaderRestEnd(pattern, s,
                            WordsEnd(pattern, toLowerCase(s), HeadingPrefixEnd(s, p))))

\* the leftmost of a set of matches, index 0 for none
Leftmost(S) ==
    IF S = {} THEN [index |-> 0, next |-> 0]
    ELSE CHOOSE m \in S : \A n \in S : m.index <= n.index

\* the first match at or after position from: [index, next], index 0 for none
FirstMatch(pattern, s, from) ==
    Leftmost({m \in {[index |-> p, next |-> PatternEndAt(pattern, s, p)] :
                         p \in from..Len(s)} : m.next # 0})

\* content.match(pattern) with the flag g: all matches from left to right
RECURSIVE AllMatches(_, _, _)
MatchesFrom(pattern, s, m) ==
    IF m.index = 0 THEN << >>
    ELSE << m >> \o AllMatches(pattern, s, m.next)

AllMatches(pattern, s, from) == MatchesFrom(pattern, s, FirstMatch(pattern, s, from))

\* content.replace(pattern, '\n') with the flag g
RECURSIVE ReplaceMatches(_, _, _)
ReplaceMatches(s, matches, from) ==
    IF matches = << >> THEN SubSeq(s, from, Len(s))
    ELSE SubSeq(s, from, Head(matches).index - 1) \o <<"\n">>
         \o ReplaceMatches(s, Tail(matches), Head(matches).next)

\* String.prototype.replace(search, replacement) with a string to search for:
\* the first occurrence only
replaceFirst(s, search, replacement) ==
    LET at == {i \in 1..(Len(s) - Len(search) + 1) :
                  SubSeq(s, i, i + Len(search) - 1) = search}
    IN  IF at = {} THEN s
        ELSE SubSeq(s, 1, Min(at) - 1) \o replacement
             \o SubSeq(s, Min(at) + Len(search), Len(s))

isExecutiveInsightsHeader(text) ==
    LET lower == toLowerCase(text)
    IN  \/ includes(lower, <<"e","x","e","c","u","t","i","v","e"," ","i","n","s","i","g","h","t">>)
        \/ includes(lower, <<"t","o","p"," ","i","n","s","i","g","h","t">>)
        \/ includes(lower, <<"n","u","m","e","r","i","c"," ","c","a","l","l","o","u","t">>)
        \/ includes(lower, <<"w","i","t","h"," ","c","a","l","l","o","u","t">>)

\* line.replace(/^[-(bullet)*]\s*/, '')
stripListMark(line) ==
    IF line # << >> /\ IsListMark(line[1])
    THEN SubSeq(line, WhitespaceRunEnd(line, 1) + 1, Len(line))
    ELSE line

\* the lines of the block that stay after the map and the filter
RECURSIVE insightsOfLines(_)
insightsOfLines(lines) ==
    IF lines = << >> THEN << >>
    ELSE LET line == trim(stripListMark(stripLeadingNumber(Head(lines))))
         IN  (IF Len(line) > 0 /\ ~isExecutiveInsightsHeader(line)
              THEN << line >> ELSE << >>) \o insightsOfLines(Tail(lines))

\* match[1], the captured block, and content.replace(match[0], '\n')
insightsOfMatch(content, match) ==
    IF match.index = 0 THEN [insights |-> << >>, remainingContent |-> content]
    ELSE [insights |->
              insightsOfLines(LinesOf(SubSeq(content,
                  HeaderRestEnd("sectionPattern", content,
                      WordsEnd("sectionPattern", toLowerCase(content),
                               HeadingPrefixEnd(content, match.index))),
                  match.next - 1))),
          remainingContent |->
              replaceFirst(content, SubSeq(content, match.index, match.next - 1),
                           <<"\n">>)]

extractExecutiveInsights(content) ==
    insightsOfMatch(content, FirstMatch("sectionPattern", content, 1))

\* item.replace(/^[-*(bullet)]\s*/, '').trim(), and with /^[-*(bullet)?]+\s*/ for
\* the questions
itemText(pattern, item) ==
    LET other == {i \in 1..Len(item) : MarkerLast(pattern, item, i) = 0}
    IN  IF pattern = "questionsPattern"
        THEN (IF other = {} THEN << >> ELSE trim(SubSeq(item, Min(other), Len(item))))
        ELSE trim(SubSeq(item, 2, Len(item)))

\* match.match(/[-*(bullet)]\s*(.+)/g) and the forEach over the items: the texts
\* pushed for one matched block
RECURSIVE itemsOfMatch(_, _, _)
\* if (text) list.push(text)
pushText(text) == IF text # << >> THEN << text >> ELSE << >>

itemAndRest(pattern, matched, p, e) ==
    pushText(itemText(pattern, SubSeq(matched, p, e)))
    \o itemsOfMatch(pattern, matched, e + 1)

itemsFrom(pattern, matched, p) ==
    IF p = 0 THEN << >>
    ELSE itemAndRest(pattern, matched, p, ItemLast(pattern, matched, p))

itemsOfMatch(pattern, matched, from) ==
    itemsFrom(pattern, matched,
              MinOrZero({p \in from..Len(matched) : ItemLast(pattern, matched, p) # 0}))

\* the forEach over the matches
RECURSIVE itemsOfMatches(_, _, _)
itemsOfMatches(pattern, content, matches) ==
    IF matches = << >> THEN << >>
    ELSE itemsOfMatch(pattern, SubSeq(content, Head(matches).index,
                                      Head(matches).next - 1), 1)
         \o itemsOfMatches(pattern, content, Tail(matches))

\* return { content: content.trim(), keyTakeaways, questions, executiveInsights }
specialOf(extracted, takeawaysMatch, afterTakeaways, questionsMatch) ==
    [content           |-> trim(ReplaceMatches(afterTakeaways, questionsMatch, 1)),
     keyTakeaways      |-> itemsOfMatches("takeawaysPattern", extracted.remainingContent,
                                          takeawaysMatch),
     questions         |-> itemsOfMatches("questionsPattern", afterTakeaways,
                                          questionsMatch),
     executiveInsights |-> extracted.insights]

\* content.match(questionsPattern) on the content the takeaways were removed from
extractQuestions(extracted, takeawaysMatch, afterTakeaways) ==
    specialOf(extracted, takeawaysMatch, afterTakeaways,
              AllMatches("questionsPattern", afterTakeaways, 1))

\* content.match(takeawaysPattern) on the content the insights were removed from
extractTakeaways(extracted, takeawaysMatch) ==
    extractQuestions(extracted, takeawaysMatch,
                     ReplaceMatches(extracted.remainingContent, takeawaysMatch, 1))

extractAfterInsights(extracted) ==
    extractTakeaways(extracted, AllMatches("takeawaysPattern",
                                           extracted.remainingContent, 1))

parseSpecialSections(markdown) == extractAfterInsights(extractExecutiveInsights(markdown))

NoSpecial ==
    [content |-> << >>, keyTakeaways |-> << >>, questions |-> << >>,
     executiveInsights |-> << >>]

-----------------------------------------------------------------------------
(* removeRedundantTitle of components/report-section.tsx *)

\* the position after the run of "#" the text starts with
HashRunEnd(s) ==
    LET stop == {i \in 1..Len(s) : s[i] # "#"}
    IN  IF stop = {} THEN Len(s) + 1 ELSE Min(stop)

\* \.? at c
OptDotEnd(s, c) == IF c <= Len(s) /\ s[c] = "." THEN c + 1 ELSE c

\* \s* from d takes the rest of the text
SpaceToEnd(s, d) == WhitespaceRunEnd(s, d - 1) = Len(s)

\* \d+\.?\s* is the text from b on
NumberToEnd(s, b, c) == c > b /\ SpaceToEnd(s, OptDotEnd(s, c))

\* the text before the name is all of what precedes ${escapedName} in the
\* pattern: ^#+\s*\d+\.?\s* , ^#+\s* , ^\*\*\d*\.?\s*
HashPrefix(numbered, pre, h) ==
    /\ h > 1
    /\ IF numbered
       THEN NumberToEnd(pre, WhitespaceRunEnd(pre, h - 1) + 1,
                        DigitRunEnd(pre, WhitespaceRunEnd(pre, h - 1) + 1))
       ELSE SpaceToEnd(pre, h)

TitlePrefix(pattern, pre) ==
    CASE pattern = "numbered" -> HashPrefix(TRUE, pre, HashRunEnd(pre))
      [] pattern = "plain"    -> HashPrefix(FALSE, pre, HashRunEnd(pre))
      [] pattern = "bold"     -> /\ startsWith(pre, <<"*","*">>)
                                 /\ SpaceToEnd(pre, OptDotEnd(pre, DigitRunEnd(pre, 3)))

\* \s*\n+ from q: the position after the last line break of the run of
\* whitespace, 0 when the run has no line break
LineBreaksEnd(s, q, e) ==
    IF \E i \in q..e : s[i] = "\n"
    THEN Max({i \in q..e : s[i] = "\n"}) + 1 ELSE 0

\* what follows the name: \s*\n+ , and \*\*\s*\n+ in the bold pattern
TitleTailEnd(pattern, s, q) ==
    IF pattern = "bold"
    THEN (IF LitEnd(s, q, <<"*","*">>) = 0 THEN 0
          ELSE LineBreaksEnd(s, q + 2, WhitespaceRunEnd(s, q + 1)))
    ELSE LineBreaksEnd(s, q, WhitespaceRunEnd(s, q - 1))

\* the name at p, letter case ignored (flag i)
NameAt(s, p, name) ==
    /\ p + Len(name) - 1 <= Len(s)
    /\ toLowerCase(SubSeq(s, p, p + Len(name) - 1)) = toLowerCase(name)

\* the positions at which the name can stand in a match of the pattern
TitleMatches(pattern, s, name) ==
    {p \in 1..Len(s) : /\ NameAt(s, p, name)
                       /\ TitlePrefix(pattern, SubSeq(s, 1, p - 1))
                       /\ TitleTailEnd(pattern, s, p + Len(name)) # 0}

\* the quantifiers are greedy: the match that is found first has the name
\* furthest to the right
CutTitle(pattern, s, name, at) ==
    IF at = {} THEN s
    ELSE SubSeq(s, TitleTailEnd(pattern, s, Max(at) + Len(name)), Len(s))

\* result = result.replace(pattern, '')
replaceTitle(pattern, s, name) == CutTitle(pattern, s, name, TitleMatches(pattern, s, name))

removeRedundantTitle(content, name) ==
    IF name = << >> THEN content
    ELSE replaceTitle("bold",
             replaceTitle("plain", replaceTitle("numbered", content, name), name), name)

-----------------------------------------------------------------------------
(* Section texts parseSpecialSections is run on *)

MaxSegments == 3

\* a takeaways block of three bullets and a questions block of two, each under
\* a heading, under a bold header and under a deeper heading with a qualifier,
\* and a paragraph of narrative
Segments ==
    { <<"#","#"," ","K","e","y"," ","T","a","k","e","a","w","a","y","s","\n","-"," ","t","1","\n","-"," ","t","2","\n","-"," ","t","3">>,
      <<"*","*","K","e","y"," ","T","a","k","e","a","w","a","y","s","*","*","\n","-"," ","t","1","\n","-"," ","t","2","\n","-"," ","t","3">>,
      <<"#","#","#"," ","K","e","y"," ","T","a","k","e","a","w","a","y","s"," ","(","s","u","m","m","a","r","y",")","\n","-"," ","t","1","\n","-"," ","t","2","\n","-"," ","t","3">>,
      <<"#","#"," ","Q","u","e","s","t","i","o","n","s"," ","f","o","r"," ","M","a","n","a","g","e","m","e","n","t","\n","-"," ","q","1","?","\n","-"," ","q","2","?">>,
      <<"*","*","Q","u","e","s","t","i","o","n","s"," ","f","o","r"," ","M","a","n","a","g","e","m","e","n","t","*","*","\n","-"," ","q","1","?","\n","-"," ","q","2","?">>,
      <<"#","#","#"," ","Q","u","e","s","t","i","o","n","s"," ","f","o","r"," ","M","a","n","a","g","e","m","e","n","t"," ","(","o","p","e","n",")","\n","-"," ","q","1","?","\n","-"," ","q","2","?">>,
      <<"R","e","v","e","n","u","e"," ","r","o","s","e",".">> }

\* the segments joined by the separator
RECURSIVE JoinWith(_, _)
JoinWith(segs, sep) ==
    IF segs = << >> THEN << >>
    ELSE IF Len(segs) = 1 THEN segs[1]
    ELSE segs[1] \o sep \o JoinWith(Tail(segs), sep)

\* up to MaxSegments segments, a line break or an empty line between them
SectionTexts ==
    UNION { {JoinWith(segs, sep) : segs \in [1..n -> Segments],
                                   sep \in {<<"\n">>, <<"\n","\n">>}} : n \in 0..MaxSegments }

SpecialInit ==
    /\ sectionMarkdown \in SectionTexts
    /\ sectionName = << >>
    /\ special = NoSpecial
    /\ narrative = << >>
    /\ specialPc = "call"

\* const { content, keyTakeaways, questions, executiveInsights } =
\*     parseSpecialSections(markdown)
\* const content = removeRedundantTitle(parsedContent, sectionName)
ParseSpecial ==
    /\ specialPc = "call"
    /\ special' = parseSpecialSections(sectionMarkdown)
    /\ narrative' = removeRedundantTitle(special'.content, sectionName)
    /\ specialPc' = "done"
    /\ UNCHANGED <<adminVars, sectionMarkdown, sectionName, exVars, parseVars, reqVars, viewVars, fmtVars, rowVars>>

SpecialNext == ParseSpecial

-----------------------------------------------------------------------------
(* Properties of the special blocks *)

IsTakeawaysHeader(line) == includes(toLowerCase(line), <<"k","e","y"," ","t","a","k","e","a","w","a","y","s">>)

IsQuestionsHeader(line) == includes(toLowerCase(line), <<"q","u","e","s","t","i","o","n","s"," ","f","o","r"," ","m","a","n","a","g","e","m","e","n","t">>)

\* a list marker and a blank, then the text of the bullet
IsBulletLine(line) == Len(line) > 2 /\ IsListMark(line[1]) /\ line[2] = " "

\* the block the i-th line belongs to: a header line opens a block, the bullet
\* lines that follow it continue it, any other line ends it
RECURSIVE BlockAt(_, _)
BlockAt(lines, i) ==
    IF i = 0 THEN "none"
    ELSE IF IsTakeawaysHeader(lines[i]) THEN "takeaways"
    ELSE IF IsQuestionsHeader(lines[i]) THEN "questions"
    ELSE IF IsBulletLine(lines[i]) THEN BlockAt(lines, i - 1)
    ELSE "none"

\* the texts of the bullet lines of the blocks of one kind among the first n lines
RECURSIVE BulletTexts(_, _, _)
BulletTexts(block, lines, n) ==
    IF n = 0 THEN << >>
    ELSE BulletTexts(block, lines, n - 1)
         \o (IF IsBulletLine(lines[n]) /\ BlockAt(lines, n) = block
             THEN << trim(SubSeq(lines[n], 2, Len(lines[n]))) >> ELSE << >>)

\* C14 (as claimed): the takeaways are the texts of the bullet lines of all
\* takeaways blocks in document order, the questions those of all questions
\* blocks (three bullets give three items, a header line is never an item), and
\* no line of a block, header or bullet, remains in the narrative.
C14_BlocksExtractedExactly ==
    specialPc = "done" =>
        LET lines == LinesOf(sectionMarkdown)
        IN  /\ special.keyTakeaways = BulletTexts("takeaways", lines, Len(lines))
            /\ special.questions = BulletTexts("questions", lines, Len(lines))
            /\ \A i \in 1..Len(lines) :
                  BlockAt(lines, i) # "none" => ~includes(special.content, lines[i])

-----------------------------------------------------------------------------
(* Formatter: formatFinancialNumber of src/lib/excel.ts *)

EmDash == "emdash"

EnDash == "endash"

endsWith(s, suffix) ==
    Len(suffix) <= Len(s) /\ SubSeq(s, Len(s) - Len(suffix) + 1, Len(s)) = suffix

\* /\d/.test(s)
hasDigit(s) == \E i \in 1..Len(s) : IsDigit(s[i])

\* strValue.replace(/[^0-9.-]/g, '')
numericOnly(s) == SelectSeq(s, LAMBDA c : IsDigit(c) \/ c = "." \/ c = "-")

\* parseFloat on a string of digits, "." and "-": the longest prefix that is a
\* decimal literal - a sign, digits, a point and digits - and NaN when the digits
\* are missing
parseFloat(s) ==
    LET first    == IF s # << >> /\ s[1] = "-" THEN 2 ELSE 1
        intEnd   == DigitRunEnd(s, first)
        fracEnd  == IF intEnd <= Len(s) /\ s[intEnd] = "."
                    THEN DigitRunEnd(s, intEnd + 1) ELSE intEnd
        fraction == IF fracEnd > intEnd THEN SubSeq(s, intEnd + 1, fracEnd - 1) ELSE << >>
    IN  [isNaN    |-> intEnd = first /\ fraction = << >>,
         negative |-> first = 2,
         integer  |-> SubSeq(s, first, intEnd - 1),
         fraction |-> fraction]

\* !isNaN(numericValue) && Math.abs(numericValue) < 0.01: the integer digits are
\* zeros and so are the first two digits of the fraction
belowCent(number) ==
    /\ ~number.isNaN
    /\ \A i \in 1..Len(number.integer) : number.integer[i] = "0"
    /\ \A i \in 1..Len(number.fraction) : i <= 2 => number.fraction[i] = "0"

NotApplicable ==
    [text |-> <<"N","/","A">>, isNegative |-> FALSE, isPositive |-> FALSE, isZero |-> FALSE,
     isNA |-> TRUE]

ZeroDash ==
    [text |-> << EmDash >>, isNegative |-> FALSE, isPositive |-> FALSE, isZero |-> TRUE,
     isNA |-> FALSE]

\* the first check: null, undefined and '' are the empty string here
isNotApplicable(value) ==
    \/ value = << >>
    \/ includes(toLowerCase(value), <<"n","/","a">>)
    \/ includes(toLowerCase(value), <<"d","a","t","a"," ","n","o","t"," ","p","r","o","v","i","d","e","d">>)
    \/ toLowerCase(value) = <<"n","/","m">>
    \/ toLowerCase(value) = <<"n","m">>

\* the text of a value with a leading minus
parenthesized(strValue) ==
    IF includes(strValue, <<"$">>)
    THEN replaceFirst(strValue, <<"-","$">>, <<"(","$">>) \o <<")">>
    ELSE <<"(">> \o replaceFirst(strValue, <<"-">>, << >>) \o <<")">>

formatFinancialNumber(value) ==
    LET strValue   == trim(value)
        isNegative == \/ startsWith(strValue, <<"-">>) /\ hasDigit(strValue)
                      \/ startsWith(strValue, <<"(">>) /\ endsWith(strValue, <<")">>)
                      \/ includes(strValue, <<"(","$">>)
                      \/ includes(strValue, <<"-","(">>)
        isPositive == startsWith(strValue, <<"+">>) /\ hasDigit(strValue)
        isZero     == belowCent(parseFloat(numericOnly(strValue)))
    IN  IF isNotApplicable(value) THEN NotApplicable
        ELSE IF strValue \in {<<"-">>, << EmDash >>, << EnDash >>} THEN ZeroDash
        ELSE IF isZero /\ ~includes(strValue, <<"%">>) THEN ZeroDash
        ELSE [text       |-> IF isNegative /\ startsWith(strValue, <<"-">>)
                                           /\ ~startsWith(strValue, <<"(">>)
                             THEN parenthesized(strValue) ELSE strValue,
              isNegative |-> isNegative,
              isPositive |-> isPositive,
              isZero     |-> isZero,
              isNA       |-> FALSE]

-----------------------------------------------------------------------------
(* Cell values formatFinancialNumber is run on *)

MaxValueLen == 4

ValueAlphabet == {"-", "(", ")", "$", "%", "5", "0", "."}

\* values with letters, blanks, dashes and a plus sign
ValueLiterals ==
    { <<>>, <<" ">>, <<"N","/","A">>, <<"n","/","a">>, <<" ","n","/","a"," ">>, <<"n","/","a","*">>, <<"n","/","m">>, <<" ","n","/","m"," ">>, <<"N","M">>,
      <<"n","m"," ">>, <<"n","o","r","m">>, <<"d","a","t","a"," ","n","o","t"," ","p","r","o","v","i","d","e","d">>, <<"D","a","t","a"," ","N","o","t"," ","P","r","o","v","i","d","e","d"," ","y","e","t">>,
      <<"emdash">>, <<"endash">>, <<" ","emdash"," ">>, <<" ","-"," ">>, <<"+","5">>, <<"+","0">>, <<"+","0",".","0","%">>, <<"-","$","5",".","8","K">>,
      <<"-","4","7",".","3","%">>, <<"-","5",".","8">>, <<"(","$","5",".","8","K",")">>, <<" ","-","5"," ">>, <<"-","5",".","8"," ","$">>, <<"0",".","0","0","9">>, <<"0",".","0","1">>,
      <<"-","0",".","0","%">>, <<"(","0",".","0","0",")">>, <<"T","o","t","a","l">>, <<"check">>, <<"checkmark">>, <<" ","check"," ">>, <<"y","e","s">>, <<"Y","e","s"," ">>,
      <<"cross">>, <<"crossmark">>, <<"n","o">>, <<" ","N","O">>, <<"n","o","n","e">>, <<"[","o","b","j","e","c","t"," ","O","b","j","e","c","t","]">>, <<"N","/","M">> }

CellValues ==
    ValueLiterals
    \cup UNION { [1..n -> ValueAlphabet] : n \in 1..MaxValueLen }

FormatInit ==
    /\ cellValue \in CellValues
    /\ formatted = << >>
    /\ fmtPc = "call"
    /\ cell = << >>
    /\ cellPc = "call"

\* const formatted = formatFinancialNumber(text)
Format ==
    /\ fmtPc = "call"
    /\ formatted' = formatFinancialNumber(cellValue)
    /\ fmtPc' = "done"
    /\ UNCHANGED <<adminVars, cellValue, cell, cellPc, exVars, parseVars, reqVars, viewVars,
                   blockVars, rowVars>>

(* The td component of MarkdownContent, components/report-section.tsx *)

\* the characters of the indicators, by name
CheckMark == "check"

CheckMarkButton == "checkmark"

BallotX == "cross"

CrossMark == "crossmark"

\* formatMaterialIndicator: << >> for null, else the one record returned
formatMaterialIndicator(value) ==
    LET trimmed == trim(value)
        lower   == toLowerCase(trimmed)
    IN  IF trimmed \in {<< CheckMark >>, << CheckMarkButton >>} \/ lower = <<"y","e","s">>
        THEN << [text |-> trimmed,
                 className |-> {"text-emerald-600", "dark:text-emerald-400",
                                "font-medium"}] >>
        ELSE IF trimmed \in {<< BallotX >>, << CrossMark >>} \/ lower = <<"n","o">>
        THEN << [text |-> trimmed,
                 className |-> {"text-red-600", "dark:text-red-400"}] >>
        ELSE IF lower = <<"n","/","a">> \/ trimmed = <<"-">> \/ trimmed = << EmDash >>
                \/ lower = <<"n","/","m">>
        THEN << [text |-> trimmed, className |-> {"financial-na"}] >>
        ELSE << >>

\* cn(...): the class names whose condition holds
classesOf(number) ==
    {c \in {"financial-negative", "financial-zero", "financial-na"} :
        \/ c = "financial-negative" /\ number.isNegative
        \/ c = "financial-zero" /\ number.isZero
        \/ c = "financial-na" /\ number.isNA}

cellOfNumber(number) == [className |-> classesOf(number), text |-> number.text]

cellOfIndicator(materialFormat, text) ==
    IF materialFormat # << >>
    THEN [className |-> materialFormat[1].className, text |-> materialFormat[1].text]
    ELSE cellOfNumber(formatFinancialNumber(text))

\* td: ({ children }) => ... on the text of the children
td(text) ==
    IF text = <<"[","o","b","j","e","c","t"," ","O","b","j","e","c","t","]">> \/ text = << >>
    THEN [className |-> {"financial-na"}, text |-> << EmDash >>]
    ELSE cellOfIndicator(formatMaterialIndicator(text), text)

RenderCell ==
    /\ cellPc = "call"
    /\ cell' = td(cellValue)
    /\ cellPc' = "done"
    /\ UNCHANGED <<adminVars, cellValue, formatted, fmtPc, exVars, parseVars, reqVars, viewVars,
                   blockVars, rowVars>>

FormatNext == Format \/ RenderCell

-----------------------------------------------------------------------------
(* Properties of the formatter *)

\* C15 (as claimed): a value classified negative because of its leading minus is
\* displayed as "(" + the value without that minus + ")" - so the text never
\* keeps the minus and its closing parenthesis has an opening one - and a
\* negative value already wrapped in parentheses is displayed unchanged.
C15_LeadingMinusParenthesized ==
    fmtPc = "done" =>
        LET strValue == trim(cellValue)
        IN  /\ (formatted.isNegative /\ startsWith(strValue, <<"-">>))
                  => formatted.text
                         = <<"(">> \o SubSeq(strValue, 2, Len(strValue)) \o <<")">>
            /\ (/\ formatted.isNegative
                /\ startsWith(strValue, <<"(">>)
                /\ endsWith(strValue, <<")">>))
                  => formatted.text = strValue

\* what the specification calls Not-Applicable: the trimmed value is empty, is
\* n/a, n/m or nm in any letter case, or contains "data not provided"
SaidNotApplicable(value) ==
    LET lower == toLowerCase(trim(value))
    IN  \/ lower \in {<< >>, <<"n","/","a">>, <<"n","/","m">>, <<"n","m">>}
        \/ includes(lower, <<"d","a","t","a"," ","n","o","t"," ","p","r","o","v","i","d","e","d">>)

\* C16 (as claimed): a value is classified Not-Applicable exactly when, trimmed,
\* it is empty, equals n/a, n/m or nm in any letter case, or contains "data not
\* provided"; exactly then the text is "N/A".
C16_NotApplicableIff ==
    fmtPc = "done" =>
        /\ formatted.isNA <=> SaidNotApplicable(cellValue)
        /\ formatted.text = <<"N","/","A">> <=> SaidNotApplicable(cellValue)

\* C17 (as claimed): a value that is only a dash is zero with the text em dash;
\* every other value (Not-Applicable ones aside) whose parsed magnitude is below
\* 0.01 is zero, with the text em dash, or with the trimmed value unchanged as
\* text when it contains a percent sign.
C17_ZeroDashOrPercent ==
    fmtPc = "done" =>
        LET strValue == trim(cellValue)
        IN  /\ strValue \in {<<"-">>, << EmDash >>, << EnDash >>}
                  => formatted.isZero /\ formatted.text = << EmDash >>
            /\ (/\ strValue \notin {<<"-">>, << EmDash >>, << EnDash >>}
                /\ ~formatted.isNA
                /\ belowCent(parseFloat(numericOnly(strValue))))
                  => /\ formatted.isZero
                     /\ formatted.text = IF includes(strValue, <<"%">>) THEN strValue
                                         ELSE << EmDash >>

\* C18 (as claimed): at most one of isNA, isZero and isNegative is true, and a
\* value classified Not-Applicable or zero is flagged neither negative nor
\* positive.
C18_OneClassification ==
    fmtPc = "done" =>
        /\ ~(formatted.isNA /\ formatted.isZero)
        /\ ~(formatted.isNA /\ formatted.isNegative)
        /\ ~(formatted.isZero /\ formatted.isNegative)
        /\ (formatted.isNA \/ formatted.isZero)
              => ~formatted.isNegative /\ ~formatted.isPositive

\* C19 (as claimed): formatting the text of a result gives that text again and
\* the same negative, zero and Not-Applicable flags.
C19_IdempotentOnOwnOutput ==
    fmtPc = "done" =>
        LET again == formatFinancialNumber(formatted.text)
        IN  /\ again.text = formatted.text
            /\ again.isNegative = formatted.isNegative
            /\ again.isZero = formatted.isZero
            /\ again.isNA = formatted.isNA


\* an affirmative or a negative indicator token
IsIndicatorToken(text) ==
    \/ trim(text) \in {<< CheckMark >>, << CheckMarkButton >>, << BallotX >>, << CrossMark >>}
    \/ toLowerCase(trim(text)) \in {<<"y","e","s">>, <<"n","o">>}

\* C22 (as claimed): every table cell is displayed with the text and the
\* NA/zero/negative style the classifier assigns to the text of the cell - a
\* Not-Applicable cell (empty, "n/a", "n/m") shows "N/A" with the N/A style, a
\* dash-only cell shows the em dash with the zero style - and the
\* material-indicator check changes this only for the affirmative and the
\* negative indicator tokens.
C22_CellShowsClassification ==
    (cellPc = "done" /\ ~IsIndicatorToken(cellValue)) =>
        /\ cell = cellOfNumber(formatFinancialNumber(cellValue))
        /\ toLowerCase(cellValue) \in {<< >>, <<"n","/","a">>, <<"n","/","m">>}
              => cell = [className |-> {"financial-na"}, text |-> <<"N","/","A">>]
        /\ cellValue \in {<<"-">>, << EmDash >>}
              => cell = [className |-> {"financial-zero"}, text |-> << EmDash >>]
-----------------------------------------------------------------------------
(* Row classification: isTotalRow of components/report-section.tsx, isRowTotal
   and isRowSubtotal of src/lib/excel.ts *)

\* the check of the renderer
isTotalRow(label) ==
    LET lower == trim(toLowerCase(label))
    IN  \/ startsWith(lower, <<"t","o","t","a","l">>)
        \/ startsWith(lower, <<"="," ">>)
        \/ includes(lower, <<"n","e","t"," ","i","n","c","o","m","e">>)
        \/ includes(lower, <<"g","r","o","s","s"," ","p","r","o","f","i","t">>)
        \/ lower = <<"e","b","i","t","d","a">>
        \/ lower = <<"e","b","i","t">>
        \/ lower = <<"n","e","t"," ","c","a","s","h">>

\* the check of the library
isRowTotal(label) ==
    LET lower == trim(toLowerCase(label))
    IN  \/ startsWith(lower, <<"t","o","t","a","l">>)
        \/ startsWith(lower, <<"="," ">>)
        \/ includes(lower, <<"n","e","t"," ","i","n","c","o","m","e">>)
        \/ includes(lower, <<"g","r","o","s","s"," ","p","r","o","f","i","t">>)
        \/ includes(lower, <<"e","b","i","t","d","a">>)
        \/ includes(lower, <<"e","b","i","t">>)
        \/ lower = <<"n","e","t"," ","c","a","s","h">>

isRowSubtotal(label) ==
    LET lower == trim(toLowerCase(label))
    IN  startsWith(lower, <<"s","u","b","t","o","t","a","l">>) \/ startsWith(lower, <<"s","u","b","-","t","o","t","a","l">>)

MaxLabelWords == 2

LabelWords ==
    { <<"T","o","t","a","l">>, <<"=">>, <<"N","e","t">>, <<"I","n","c","o","m","e">>, <<"G","r","o","s","s">>, <<"P","r","o","f","i","t">>, <<"E","B","I","T","D","A">>,
      <<"E","B","I","T">>, <<"C","a","s","h">>, <<"A","d","j","u","s","t","e","d">>, <<"D","e","b","i","t">>, <<"S","u","b","t","o","t","a","l">>, <<"S","u","b","-","t","o","t","a","l">>,
      <<"r","e","v","e","n","u","e">> }

\* up to MaxLabelWords words with a blank between them, as they are and with
\* blanks around them
RowLabels ==
    LET plain == UNION { {JoinWith(ws, <<" ">>) : ws \in [1..n -> LabelWords]} :
                         n \in 0..MaxLabelWords }
    IN  plain \cup {<<" ">> \o l \o <<" ">> : l \in plain}

RowInit ==
    /\ rowLabel \in RowLabels
    /\ rowClass = << >>
    /\ rowPc = "call"

\* the tr component: the class of the row from the text of its first cell, and
\* the answers of the library for the same label
ClassifyRow ==
    /\ rowPc = "call"
    /\ rowClass' = [className     |-> IF isTotalRow(rowLabel) THEN "row-total" ELSE "",
                    isRowTotal    |-> isRowTotal(rowLabel),
                    isRowSubtotal |-> isRowSubtotal(rowLabel)]
    /\ rowPc' = "done"
    /\ UNCHANGED <<adminVars, rowLabel, exVars, parseVars, reqVars, viewVars, blockVars, fmtVars>>

RowNext == ClassifyRow

\* what the specification calls a total row
SaidTotalRow(label) ==
    LET lower == trim(toLowerCase(label))
    IN  \/ startsWith(lower, <<"t","o","t","a","l">>)
        \/ startsWith(lower, <<"="," ">>)
        \/ \E name \in {<<"n","e","t"," ","i","n","c","o","m","e">>, <<"g","r","o","s","s"," ","p","r","o","f","i","t">>, <<"e","b","i","t","d","a">>, <<"e","b","i","t">>} :
              includes(lower, name)
        \/ lower = <<"n","e","t"," ","c","a","s","h">>

\* C20 (as claimed): a row gets the total-row highlight exactly when its label,
\* trimmed and in lower case, starts with "total" or "= ", contains "net income",
\* "gross profit", "ebitda" or "ebit", or is "net cash"; the renderer and
\* isRowTotal of the library give the same answer for every label.
C20_TotalRowChecksAgree ==
    rowPc = "done" =>
        /\ rowClass.className = "row-total" <=> SaidTotalRow(rowLabel)
        /\ rowClass.className = "row-total" <=> rowClass.isRowTotal


\* C21 (as claimed): no row label is both a subtotal row and a total row: the
\* answers of isRowSubtotal and isRowTotal are never both true for one label.
C21_NeverSubtotalAndTotal ==
    rowPc = "done" => ~(rowClass.isRowSubtotal /\ rowClass.isRowTotal)
-----------------------------------------------------------------------------
(* Documents that hold the nine canonical headings in a scrambled order *)

\* the section names the generation prompt asks for
canonicalHeadings ==
    << <<"1","."," ","E","x","e","c","u","t","i","v","e"," ","S","n","a","p","s","h","o","t">>, <<"2","."," ","R","e","v","e","n","u","e"," ","P","e","r","f","o","r","m","a","n","c","e">>,
       <<"3","."," ","C","O","G","S"," ","&"," ","G","r","o","s","s"," ","M","a","r","g","i","n">>, <<"4","."," ","O","p","e","r","a","t","i","n","g"," ","E","x","p","e","n","s","e","s">>,
       <<"5","."," ","P","r","o","f","i","t","a","b","i","l","i","t","y"," ","&"," ","B","r","i","d","g","e","s">>, <<"6","."," ","V","a","r","i","a","n","c","e"," ","&"," ","P","e","r","f","o","r","m","a","n","c","e"," ","M","a","n","a","g","e","m","e","n","t">>,
       <<"7","."," ","C","a","s","h"," ","F","l","o","w"," ","&"," ","L","i","q","u","i","d","i","t","y">>, <<"8","."," ","B","a","l","a","n","c","e"," ","S","h","e","e","t"," ","H","e","a","l","t","h">>,
       <<"9","."," ","R","i","s","k"," ","&"," ","C","o","n","t","r","o","l","s">> >>

MaxSwaps == 1

CanonicalOrder == [i \in 1..Len(canonicalHeadings) |-> i]

SwapAt(p, i, j) ==
    [k \in 1..Len(p) |-> IF k = i THEN p[j] ELSE IF k = j THEN p[i] ELSE p[k]]

\* the orders that n exchanges of two headings make of the orders in ps
RECURSIVE Scrambled(_, _)
Scrambled(ps, n) ==
    IF n = 0 THEN ps
    ELSE Scrambled(ps \cup {SwapAt(p, i, j) : p \in ps, i \in 1..Len(canonicalHeadings),
                                              j \in 1..Len(canonicalHeadings)}, n - 1)

ScrambledOrders == Scrambled({CanonicalOrder, Reverse(CanonicalOrder)}, MaxSwaps)

\* the narrative under the k-th canonical heading
BodyOf(k) == <<"t","e","x","t"," ">> \o orderText(k)

\* heading line, narrative, with or without blank lines around the narrative
RECURSIVE ScrambledFrom(_, _, _)
ScrambledFrom(p, i, spaced) ==
    IF i > Len(p) THEN << >>
    ELSE <<"#","#"," ">> \o canonicalHeadings[p[i]] \o <<"\n">>
         \o (IF spaced THEN <<"\n">> ELSE << >>)
         \o BodyOf(p[i]) \o <<"\n">>
         \o (IF spaced THEN <<"\n">> ELSE << >>)
         \o ScrambledFrom(p, i + 1, spaced)

ScrambledDocuments ==
    {ScrambledFrom(p, 1, spaced) : p \in ScrambledOrders, spaced \in BOOLEAN}

ScrambleInit ==
    /\ reportContent \in ScrambledDocuments
    /\ parsedSections = << >>
    /\ parsePc = "call"

\* the index of the line "## " + the k-th canonical heading, 0 when absent
HeadingLineOf(lines, k) ==
    LET at == {i \in 1..Len(lines) : lines[i] = <<"#","#"," ">> \o canonicalHeadings[k]}
    IN  IF at = {} THEN 0 ELSE Min(at)

\* the index of the first header line after line h, or one past the last line
NextHeadingLine(lines, h) ==
    LET after == {i \in (h + 1)..Len(lines) : HeaderMarkAt(lines[i], 1)}
    IN  IF after = {} THEN Len(lines) + 1 ELSE Min(after)

\* the text between the heading line of the k-th heading and the next heading line
TextBetween(lines, k) ==
    LET h == HeadingLineOf(lines, k)
    IN  JoinLines(SubSeq(lines, h + 1, NextHeadingLine(lines, h) - 1))

\* C11 (as claimed): a document of the nine canonical headings in any order
\* yields nine sections in the canonical order 1..9, and the content of each is
\* the text between its heading line and the next heading line, both heading
\* lines left out.
C11_ContentBetweenHeadings ==
    parsePc = "done" =>
        /\ Len(parsedSections) = Len(canonicalHeadings)
        /\ \A k \in 1..Len(parsedSections) :
              /\ parsedSections[k].order = k
              /\ trim(parsedSections[k].content)
                     = trim(TextBetween(LinesOf(reportContent), k))

\* C11 (amended): a document of the nine canonical headings in any order yields
\* nine sections in the canonical order 1..9 with the canonical keys, and the
\* content of each is a "## " line with its own heading, an empty line, and the
\* trimmed text between its heading line and the next heading line.
C11_ContentWithOwnHeading ==
    parsePc = "done" =>
        /\ Len(parsedSections) = Len(canonicalHeadings)
        /\ \A k \in 1..Len(parsedSections) :
              /\ parsedSections[k].order = k
              /\ parsedSections[k].key = sectionDefinitions[k].key
              /\ parsedSections[k].content
                     = <<"#","#"," ">> \o canonicalHeadings[k] \o <<"\n","\n">>
                       \o trim(TextBetween(LinesOf(reportContent), k))

\* a parsed document whose headings are not in the canonical order
C11_Witness ==
    /\ parsePc = "done"
    /\ Len(parsedSections) = Len(canonicalHeadings)
    /\ HeadingLineOf(LinesOf(reportContent), 9) < HeadingLineOf(LinesOf(reportContent), 1)
    /\ trim(TextBetween(LinesOf(reportContent), 9)) = BodyOf(9)

-----------------------------------------------------------------------------
(* Documents with headings of several levels *)

MaxLevelLines == 3

\* headings of the levels 1 to 4 with canonical titles, with and without a
\* numeral, and narrative text
LevelLines ==
    { <<"#"," ","1","."," ","E","x","e","c","u","t","i","v","e"," ","S","n","a","p","s","h","o","t">>, <<"#","#"," ","2","."," ","R","e","v","e","n","u","e"," ","P","e","r","f","o","r","m","a","n","c","e">>, <<"#","#","#"," ","R","i","s","k">>,
      <<"#","#"," ","L","i","q","u","i","d","i","t","y">>, <<"#","#","#","#"," ","4","."," ","O","p","e","r","a","t","i","n","g"," ","E","x","p","e","n","s","e","s">>, <<"t","e","x","t">> }

LevelDocuments ==
    UNION { {JoinLines(ls) : ls \in [1..n -> LevelLines]} : n \in 0..MaxLevelLines }

LevelInit ==
    /\ reportContent \in LevelDocuments
    /\ parsedSections = << >>
    /\ parsePc = "call"

\* the number of header markers the line starts with
LeadingMarkers(line) ==
    LET other == {i \in 1..Len(line) : line[i] # "#"}
    IN  IF other = {} THEN Len(line) ELSE Min(other) - 1

\* the title of a heading line: what follows the markers and the whitespace
TitleOfHeading(line) == trim(SubSeq(line, LeadingMarkers(line) + 1, Len(line)))

\* header markers, whitespace, a title that some canonical pattern matches
IsCanonicalHeading(line) ==
    /\ LeadingMarkers(line) >= 1
    /\ LeadingMarkers(line) < Len(line)
    /\ IsWhitespace(line[LeadingMarkers(line) + 1])
    /\ \E d \in 1..Len(sectionDefinitions) :
          patternTest(sectionDefinitions[d].pattern, TitleOfHeading(line))

\* the key of the first canonical pattern that matches the title
KeyOfTitle(title) ==
    sectionDefinitions[Min({d \in 1..Len(sectionDefinitions) :
                               patternTest(sectionDefinitions[d].pattern, title)})].key

\* some section came from this heading line: its key and its first line say so
StartsSection(line, sections) ==
    \E k \in 1..Len(sections) :
        /\ sections[k].key = KeyOfTitle(TitleOfHeading(line))
        /\ startsWith(sections[k].content, <<"#","#"," ">> \o TitleOfHeading(line) \o <<"\n">>)

-----------------------------------------------------------------------------
(* Stored sections rendered by MarkdownContent: the renderer gets the content
   and the name parseReportSections gave the section *)

MaxRenderLines == 3

\* headings with the numeral of the section, without a numeral, in other letter
\* case and with another numeral, a heading of level one, narrative text
RenderLines ==
    { <<"#","#"," ","1","."," ","E","x","e","c","u","t","i","v","e"," ","S","n","a","p","s","h","o","t">>, <<"#","#"," ","E","x","e","c","u","t","i","v","e"," ","S","n","a","p","s","h","o","t">>,
      <<"#","#"," ","2","."," ","R","E","V","E","N","U","E"," ","p","e","r","f","o","r","m","a","n","c","e">>, <<"#","#"," ","4","."," ","L","i","q","u","i","d","i","t","y">>, <<"#"," ","N","o","t","e","s">>,
      <<"C","a","s","h"," ","r","o","s","e",".">>, <<"M","a","r","g","i","n"," ","f","e","l","l",".">>, <<>> }

RenderDocuments ==
    UNION { {JoinWith(ls, <<"\n">>) : ls \in [1..n -> RenderLines]} :
            n \in 1..MaxRenderLines }

\* the rows the generation request stores: sectionName: section.name and
\* content: { raw_markdown: section.content }
StoredOf(sections) ==
    { [sectionName |-> sections[i].name, raw_markdown |-> sections[i].content] :
        i \in 1..Len(sections) }

StoredSections == UNION { StoredOf(parseReportSections(doc)) : doc \in RenderDocuments }

\* <ReportSection content={currentSection.content}
\*                sectionName={currentSection.sectionName} />
RenderInit ==
    /\ \E stored \in StoredSections :
          /\ sectionMarkdown = stored.raw_markdown
          /\ sectionName = stored.sectionName
    /\ special = NoSpecial
    /\ narrative = << >>
    /\ specialPc = "call"

FirstLine(s) == Head(LinesOf(s))

\* a heading line whose title is the section title, with or without a numeral
\* before either of them, in any letter case
EchoesTitle(line, name) ==
    /\ LeadingMarkers(line) >= 1
    /\ stripLeadingNumber(toLowerCase(TitleOfHeading(line)))
          = stripLeadingNumber(toLowerCase(trim(name)))

\* C23 (as claimed): for every section produced by parseReportSections and
\* rendered with its stored name, the leading heading that echoes the section
\* title - with or without a numeral, in any letter case - is stripped from the
\* narrative: what is rendered is the text after that heading line.
C23_EchoedTitleStripped ==
    (/\ specialPc = "done"
     /\ sectionName # << >>
     /\ EchoesTitle(FirstLine(special.content), sectionName)) =>
        trim(narrative)
            = trim(SubSeq(special.content, Len(FirstLine(special.content)) + 1,
                          Len(special.content)))
-----------------------------------------------------------------------------
(* Section texts with several insights blocks *)

MaxBlocks == 3

\* insights blocks under a heading, under a bold header, under a numbered
\* subsection heading and under a numbered header line; a takeaways block, a
\* questions block and a paragraph of narrative
InsightSegments ==
    { <<"#","#"," ","E","x","e","c","u","t","i","v","e"," ","I","n","s","i","g","h","t","s","\n","1","."," ","i","1","\n","2","."," ","i","2">>,
      <<"*","*","T","o","p"," ","E","x","e","c","u","t","i","v","e"," ","I","n","s","i","g","h","t","s",":","*","*","\n","-"," ","i","3","\n","-"," ","i","4">>,
      <<"#","#","#"," ","1",".","4"," ","T","o","p"," ","E","x","e","c","u","t","i","v","e"," ","I","n","s","i","g","h","t","s"," ","(","w","i","t","h"," ","n","u","m","e","r","i","c"," ","c","a","l","l","o","u","t","s",")","\n","1","."," ","i","5">>,
      <<"1","."," ","E","x","e","c","u","t","i","v","e"," ","S","u","m","m","a","r","y","\n","-"," ","i","6">>,
      <<"#","#"," ","K","e","y"," ","T","a","k","e","a","w","a","y","s","\n","-"," ","t","1">>,
      <<"#","#"," ","Q","u","e","s","t","i","o","n","s"," ","f","o","r"," ","M","a","n","a","g","e","m","e","n","t","\n","-"," ","q","1","?">>,
      <<"R","e","v","e","n","u","e"," ","r","o","s","e",".">> }

InsightTexts ==
    UNION { {JoinWith(segs, sep) : segs \in [1..n -> InsightSegments],
                                   sep \in {<<"\n">>, <<"\n","\n">>}} : n \in 0..MaxBlocks }

InsightsInit ==
    /\ sectionMarkdown \in InsightTexts
    /\ sectionName = << >>
    /\ special = NoSpecial
    /\ narrative = << >>
    /\ specialPc = "call"

\* the header line of an insights block
IsInsightsHeader(line) ==
    \/ includes(toLowerCase(line), <<"e","x","e","c","u","t","i","v","e"," ","i","n","s","i","g","h","t">>)
    \/ includes(toLowerCase(line), <<"e","x","e","c","u","t","i","v","e"," ","s","u","m","m","a","r","y">>)

\* a line of a numbered or bulleted list that is not the header of a block
IsInsightItem(line) ==
    /\ ~IsInsightsHeader(line)
    /\ \/ IsBulletLine(line)
       \/ Len(line) > 3 /\ IsDigit(line[1]) /\ line[2] = "." /\ line[3] = " "

\* the index of the last item of the list that follows line i
RECURSIVE ListEnd(_, _)
ListEnd(lines, i) ==
    IF i < Len(lines) /\ IsInsightItem(lines[i + 1]) THEN ListEnd(lines, i + 1) ELSE i

\* the header lines of the insights blocks: a list follows immediately
BlockHeaders(lines) ==
    {i \in 1..Len(lines) : IsInsightsHeader(lines[i]) /\ ListEnd(lines, i) > i}

\* the texts of the items in the lines first..last
ItemTexts(lines, first, last) ==
    [k \in 1..(last - first + 1) |->
        trim(SubSeq(lines[first + k - 1], 3, Len(lines[first + k - 1])))]

\* the lines first..last as one text
BlockText(lines, first, last) == JoinWith(SubSeq(lines, first, last), <<"\n">>)

\* the number of header lines of insights blocks in a text
HeaderLines(text) == Cardinality({i \in 1..Len(LinesOf(text)) :
                                     IsInsightsHeader(LinesOf(text)[i])})

\* C24: in a section with several insights blocks only the first one in document
\* order is extracted into the insights list and removed from the text, every
\* later insights block stays unchanged in the narrative, and the insights are
\* extracted before the takeaways and the questions, which therefore list no
\* line of an insights block.
C24_OnlyFirstInsightsBlock ==
    specialPc = "done" =>
        LET lines   == LinesOf(sectionMarkdown)
            headers == BlockHeaders(lines)
        IN  IF headers = {} THEN special.executiveInsights = << >>
            ELSE /\ special.executiveInsights
                        = ItemTexts(lines, Min(headers) + 1, ListEnd(lines, Min(headers)))
                 /\ HeaderLines(special.content) = Cardinality(headers) - 1
                 /\ \A h \in headers \ {Min(headers)} :
                       includes(special.content, BlockText(lines, h, ListEnd(lines, h)))
                 /\ special.keyTakeaways = BulletTexts("takeaways", lines, Len(lines))
                 /\ special.questions = BulletTexts("questions", lines, Len(lines))

-----------------------------------------------------------------------------
(* Users, report access and publishing: GET /api/reports/[id], ReportPage,     *)
(* POST and DELETE /api/admin/companies/[id]/users, PATCH .../publish          *)

CompanyIds == {"c1", "c2", "c3"}

Users == {"u1", "u2"}

\* who sends a request: a user of the table, a signed-in identity without a row
\* in the table ("unknown"), nobody signed in ("anonymous")
Requesters == Users \cup {"unknown", "anonymous"}

\* const { userId } = await auth(); !userId
Authenticated(requester) == requester # "anonymous"

\* prisma.user.findUnique({ where: { clerkUserId: userId } }) finds a row
HasUserRow(requester) == requester \in Users

\* requireAdmin and the admin check of the users routes: 0 when the requester
\* passes, the status of the response otherwise
requireAdmin(requester, roles) ==
    IF ~Authenticated(requester) THEN 401
    ELSE IF ~HasUserRow(requester) \/ roles[requester] # "admin" THEN 403
    ELSE 0

\* mutant of findPublishedReport: the companyId filter is left out
findPublishedReportOfAny(companyId, owner, rep) ==
    rep.status # "none" /\ rep.published

\* prisma.report.findFirst({ where: { id, companyId, published: true } }) finds
\* the report
findPublishedReport(companyId, owner, rep) ==
    rep.status # "none" /\ owner = companyId /\ rep.published

\* the checks GET /api/reports/[id] and ReportPage make, in their order
accessOutcome(requester, companyOf, owner, rep) ==
    IF ~Authenticated(requester) THEN "unauthorized"
    ELSE IF ~HasUserRow(requester) THEN "no_user"
    ELSE IF companyOf[requester] = "null" THEN "not_linked"
    ELSE IF ~findPublishedReport(companyOf[requester], owner, rep) THEN "not_found"
    ELSE "ok"

\* what the API answers and what the page does on each outcome
ApiOutcomes ==
    [unauthorized |-> "401 Unauthorized", no_user |-> "404 User not found",
     not_linked |-> "403 User not linked to a company",
     not_found |-> "404 Report not found", ok |-> "200"]

PageOutcomes ==
    [unauthorized |-> "redirect /sign-in", no_user |-> "redirect /dashboard",
     not_linked |-> "redirect /dashboard", not_found |-> "notFound", ok |-> "render"]

\* the ReportDetail of the response, the sections ordered by sortOrder
reportDetail(owner, rep, rows) ==
    [companyId |-> owner, status |-> rep.status, sections |-> orderBySortOrder(rows),
     sourceFileUrl |-> rep.sourceFileUrl]

NoGetResponse == [route |-> "none", outcome |-> "none", data |-> << >>]

\* the response of a route with the given outcomes
responseOf(route, outcomes, outcome, owner, rep, rows) ==
    [route |-> route, outcome |-> outcomes[outcome],
     data |-> IF outcome = "ok" THEN << reportDetail(owner, rep, rows) >> ELSE << >>]

\* prisma.accessLog.create after the report was found
logged(log, requester, outcome) ==
    IF outcome = "ok" THEN log \cup {requester} ELSE log

\* typeof published !== "boolean" on the JSON bodies
PublishedBodies == {"true", "false", "1"}

\* mutant of publishAllowed: the status is not looked at
publishAllowedAlways(published, status) == TRUE

\* published && report.status !== "complete" rejects the request
publishAllowed(published, status) == ~(published /\ status # "complete")

\* the checks of PATCH publish before its update: 0 when the update follows
patchStatus(requester, roles, body, rep) ==
    IF requireAdmin(requester, roles) # 0 THEN requireAdmin(requester, roles)
    ELSE IF body \notin {"true", "false"} THEN 400
    ELSE IF rep.status = "none" THEN 404
    ELSE IF ~publishAllowed(body = "true", rep.status) THEN 400
    ELSE 0

\* the checks of POST /api/admin/companies/[id]/users: 0 when the update follows
linkStatus(requester, roles, company, names, target) ==
    IF ~Authenticated(requester) THEN 401
    ELSE IF requireAdmin(requester, roles) # 0 THEN 403
    ELSE IF names[company] = << >> THEN 404
    ELSE IF target = "" THEN 400
    ELSE IF target \notin Users THEN 404
    ELSE 0

\* the checks of DELETE /api/admin/companies/[id]/users/[userId]
unlinkStatus(requester, roles, company, companyOf, target) ==
    IF ~Authenticated(requester) THEN 401
    ELSE IF requireAdmin(requester, roles) # 0 THEN 403
    ELSE IF target \notin Users \/ companyOf[target] # company THEN 404
    ELSE IF target = requester THEN 400
    ELSE 0

AccessInit ==
    /\ userCompany = [u \in Users |-> IF u = "u1" THEN "c1" ELSE "c2"]
    /\ userRole = [u \in Users |-> IF u = "u1" THEN "admin" ELSE "viewer"]
    /\ reportCompany = "c2"
    /\ accessLog = {}
    /\ getResponse = NoGetResponse
    /\ patchPc = "idle"
    /\ patchPublished = FALSE
    /\ companyNames = [c \in CompanyIds |->
                          IF c = "c1" THEN <<"A","c","m","e">> ELSE IF c = "c2" THEN <<"B","e","t","a">> ELSE << >>]
    /\ companyRequests = << >>

\* GET /api/reports/[id]
GetReport(requester) ==
    /\ getResponse' = responseOf("api", ApiOutcomes,
                          accessOutcome(requester, userCompany, reportCompany, report),
                          reportCompany, report, dbSections)
    /\ accessLog' = logged(accessLog, requester,
                           accessOutcome(requester, userCompany, reportCompany, report))
    /\ UNCHANGED <<userCompany, userRole, reportCompany, patchPc, patchPublished,
                   companyVars, uiVars, exVars, parseVars, reqVars>>

\* the page /reports/[id]
ReportPage(requester) ==
    /\ getResponse' = responseOf("page", PageOutcomes,
                          accessOutcome(requester, userCompany, reportCompany, report),
                          reportCompany, report, dbSections)
    /\ accessLog' = logged(accessLog, requester,
                           accessOutcome(requester, userCompany, reportCompany, report))
    /\ UNCHANGED <<userCompany, userRole, reportCompany, patchPc, patchPublished,
                   companyVars, uiVars, exVars, parseVars, reqVars>>

\* POST /api/admin/companies/[id]/users: the user is linked to the company
LinkUser(requester, company, target, role) ==
    /\ linkStatus(requester, userRole, company, companyNames, target) = 0
    /\ userCompany' = [userCompany EXCEPT ![target] = company]
    /\ userRole' = [userRole EXCEPT ![target] = IF role = "admin" THEN "admin" ELSE "viewer"]
    /\ UNCHANGED <<reportCompany, accessLog, getResponse, patchPc, patchPublished,
                   companyVars, uiVars, exVars, parseVars, reqVars>>

\* DELETE /api/admin/companies/[id]/users/[userId]: the user is unlinked
UnlinkUser(requester, company, target) ==
    /\ unlinkStatus(requester, userRole, company, userCompany, target) = 0
    /\ userCompany' = [userCompany EXCEPT ![target] = "null"]
    /\ userRole' = [userRole EXCEPT ![target] = "viewer"]
    /\ UNCHANGED <<reportCompany, accessLog, getResponse, patchPc, patchPublished,
                   companyVars, uiVars, exVars, parseVars, reqVars>>

\* PATCH publish up to prisma.report.findUnique and the check of the status; an
\* early return before it changes nothing
PatchChecked(requester, body) ==
    /\ patchPc = "idle"
    /\ patchStatus(requester, userRole, body, report) = 0
    /\ patchPublished' = (body = "true")
    /\ patchPc' = "update"
    /\ UNCHANGED <<userCompany, userRole, reportCompany, accessLog, getResponse,
                   companyVars, uiVars, exVars, parseVars, reqVars>>

\* prisma.report.update({ data: { published } }) and the response
PatchUpdate ==
    /\ patchPc = "update"
    /\ report' = [report EXCEPT !.published = patchPublished]
    /\ patchPublished' = FALSE
    /\ patchPc' = "idle"
    /\ UNCHANGED <<userCompany, userRole, reportCompany, accessLog, getResponse,
                   companyVars, uiVars, exVars, parseVars,
                   file, rejection, reqPc, dbSections, extraction, caught,
                   generateCalls, writeIdx, response>>

\* prisma.report.update throws: catch answers 500
PatchUpdateThrows ==
    /\ patchPc = "update"
    /\ patchPublished' = FALSE
    /\ patchPc' = "idle"
    /\ UNCHANGED <<userCompany, userRole, reportCompany, accessLog, getResponse,
                   companyVars, uiVars, exVars, parseVars, reqVars>>

LinkRoles == {"admin", "viewer", "owner"}

GetNext ==
    \/ \E requester \in Requesters : GetReport(requester)
    \/ \E requester \in Requesters : ReportPage(requester)

LinkNext ==
    \/ \E requester \in Requesters, company \in CompanyIds,
          target \in Users \cup {"", "u9"}, role \in LinkRoles :
              LinkUser(requester, company, target, role)
    \/ \E requester \in Requesters, company \in CompanyIds, target \in Users \cup {"u9"} :
              UnlinkUser(requester, company, target)

PatchNext ==
    \/ \E requester \in Requesters, body \in PublishedBodies : PatchChecked(requester, body)
    \/ PatchUpdate
    \/ PatchUpdateThrows

\* the uploads of the requests the access checks run next to: unreadable bytes,
\* a workbook without tabs, a workbook with both required sheets
AccessFiles ==
    {f \in GenFiles :
        \/ ~f.readable
        \/ f.workbook = << >>
        \/ f.workbook = << [name |-> <<"P","L"," ","-"," ","R","A","W">>, csvLen |-> 8],
                           [name |-> <<"b","s"," ","-"," ","r","a","w">>, csvLen |-> 8] >>}

\* who may be given the report: authenticated, linked to the owning company,
\* and the report published
MayRead(requester) ==
    /\ Authenticated(requester)
    /\ HasUserRow(requester)
    /\ userCompany[requester] # "null"
    /\ userCompany[requester] = reportCompany
    /\ report.status # "none"
    /\ report.published

C28_PublishedOnlyComplete ==
    /\ [](report.published => report.status = "complete")
    /\ [][report.status \in {"complete", "failed"} => report'.status = report.status]_vars

\* the generated report was unpublished by a request, and a publish request has
\* passed its check of the status
C28_Witness ==
    /\ report.status = "complete"
    /\ ~report.published
    /\ patchPc = "update"
    /\ patchPublished
-----------------------------------------------------------------------------
(* Companies: POST /api/admin/companies and PUT /api/admin/companies/[id] *)

\* the requests served at the same time
MaxRequests == 2

RequestSlots == 1..MaxRequests

\* the names of the request bodies: two names, one of them also with blanks
\* around it, a blank name and an empty one
NameInputs == { <<"A","c","m","e">>, <<" ","A","c","m","e"," ">>, <<"B","e","t","a">>, <<" "," ">>, <<>> }

NoRequest == [kind |-> "none", id |-> "", name |-> << >>, pc |-> "idle", status |-> 0]

\* !name || typeof name !== "string" || name.trim().length === 0
nameMissing(name) == Len(trim(name)) = 0

\* prisma.company.findFirst({ where: { name, id: { not: id } } }) finds a row;
\* POST has no id to leave out
duplicateOf(names, name, id) ==
    \E c \in DOMAIN names : c # id /\ names[c] # << >> /\ names[c] = name

\* the checks of POST before prisma.company.create: 0 when the create follows
postStatus(requester, roles, name, names) ==
    IF requireAdmin(requester, roles) # 0 THEN requireAdmin(requester, roles)
    ELSE IF nameMissing(name) THEN 400
    ELSE IF duplicateOf(names, trim(name), "") THEN 400
    ELSE 0

\* the checks of PUT before prisma.company.update: 0 when the update follows
putStatus(requester, roles, id, name, names) ==
    IF requireAdmin(requester, roles) # 0 THEN requireAdmin(requester, roles)
    ELSE IF nameMissing(name) THEN 400
    ELSE IF id \notin DOMAIN names \/ names[id] = << >> THEN 404
    ELSE IF duplicateOf(names, trim(name), id) THEN 400
    ELSE 0

\* the ids without a row, of which create takes the first
FreeIds(names) == {c \in DOMAIN names : names[c] = << >>}

CompanyIdOrder == << "c1", "c2", "c3" >>

NewId(names) ==
    CompanyIdOrder[Min({i \in 1..Len(CompanyIdOrder) : CompanyIdOrder[i] \in FreeIds(names)})]

CompanyInit ==
    /\ companyNames = [c \in CompanyIds |-> IF c = "c1" THEN <<"A","c","m","e">> ELSE << >>]
    /\ companyRequests = [slot \in RequestSlots |-> NoRequest]
    /\ userCompany = [u \in Users |-> IF u = "u1" THEN "c1" ELSE "null"]
    /\ userRole = [u \in Users |-> IF u = "u1" THEN "admin" ELSE "viewer"]
    /\ reportCompany = ""
    /\ accessLog = {}
    /\ getResponse = NoGetResponse
    /\ patchPc = "idle"
    /\ patchPublished = FALSE

\* a slot takes a new request when its last one has been answered
SlotFree(slot) == companyRequests[slot].pc \in {"idle", "done"}

\* POST up to an early return: 401, 403 or 400
PostRejected(slot, requester, name) ==
    /\ SlotFree(slot)
    /\ postStatus(requester, userRole, name, companyNames) # 0
    /\ companyRequests' = [companyRequests EXCEPT ![slot] =
           [kind |-> "post", id |-> "", name |-> << >>, pc |-> "done",
            status |-> postStatus(requester, userRole, name, companyNames)]]
    /\ UNCHANGED <<companyNames, accessVars, uiVars, exVars, parseVars, reqVars>>

\* POST up to the duplicate check, which finds no company of the name
PostChecked(slot, requester, name) ==
    /\ SlotFree(slot)
    /\ postStatus(requester, userRole, name, companyNames) = 0
    /\ companyRequests' = [companyRequests EXCEPT ![slot] =
           [kind |-> "post", id |-> "", name |-> name, pc |-> "create", status |-> 0]]
    /\ UNCHANGED <<companyNames, accessVars, uiVars, exVars, parseVars, reqVars>>

\* prisma.company.create({ data: { name: name.trim() } }) and the response 201
PostCreate(slot) ==
    /\ companyRequests[slot].pc = "create"
    /\ FreeIds(companyNames) # {}
    /\ companyNames' = [companyNames EXCEPT
           ![NewId(companyNames)] = trim(companyRequests[slot].name)]
    /\ companyRequests' = [companyRequests EXCEPT ![slot] =
           [@ EXCEPT !.id = NewId(companyNames), !.pc = "done", !.status = 201]]
    /\ UNCHANGED <<accessVars, uiVars, exVars, parseVars, reqVars>>

\* PUT up to an early return: 401, 403, 400 or 404
PutRejected(slot, requester, id, name) ==
    /\ SlotFree(slot)
    /\ putStatus(requester, userRole, id, name, companyNames) # 0
    /\ companyRequests' = [companyRequests EXCEPT ![slot] =
           [kind |-> "put", id |-> "", name |-> << >>, pc |-> "done",
            status |-> putStatus(requester, userRole, id, name, companyNames)]]
    /\ UNCHANGED <<companyNames, accessVars, uiVars, exVars, parseVars, reqVars>>

\* PUT up to the duplicate check, which finds no other company of the name
PutChecked(slot, requester, id, name) ==
    /\ SlotFree(slot)
    /\ putStatus(requester, userRole, id, name, companyNames) = 0
    /\ companyRequests' = [companyRequests EXCEPT ![slot] =
           [kind |-> "put", id |-> id, name |-> name, pc |-> "update", status |-> 0]]
    /\ UNCHANGED <<companyNames, accessVars, uiVars, exVars, parseVars, reqVars>>

\* prisma.company.update({ where: { id }, data: { name: name.trim() } })
PutUpdate(slot) ==
    /\ companyRequests[slot].pc = "update"
    /\ companyNames' = [companyNames EXCEPT
           ![companyRequests[slot].id] = trim(companyRequests[slot].name)]
    /\ companyRequests' = [companyRequests EXCEPT ![slot] =
           [@ EXCEPT !.pc = "done", !.status = 200]]
    /\ UNCHANGED <<accessVars, uiVars, exVars, parseVars, reqVars>>

\* the write of either request throws: catch answers 500
CompanyWriteThrows(slot) ==
    /\ companyRequests[slot].pc \in {"create", "update"}
    /\ companyRequests' = [companyRequests EXCEPT ![slot] =
           [@ EXCEPT !.pc = "done", !.status = 500]]
    /\ UNCHANGED <<companyNames, accessVars, uiVars, exVars, parseVars, reqVars>>

CompanyNext ==
    \E slot \in RequestSlots :
        \/ \E requester \in Requesters, name \in NameInputs :
               PostRejected(slot, requester, name)
        \/ \E requester \in Requesters, name \in NameInputs :
               PostChecked(slot, requester, name)
        \/ PostCreate(slot)
        \/ \E requester \in Requesters, id \in CompanyIds, name \in NameInputs :
               PutRejected(slot, requester, id, name)
        \/ \E requester \in Requesters, id \in CompanyIds, name \in NameInputs :
               PutChecked(slot, requester, id, name)
        \/ PutUpdate(slot)
        \/ CompanyWriteThrows(slot)

\* C30: under every interleaving of create and rename requests no two companies
\* have the same trimmed name, a request for the name of another company being
\* rejected without a write
C30_NoTwoCompaniesOfOneName ==
    \A a, b \in CompanyIds :
        (a # b /\ companyNames[a] # << >>) => trim(companyNames[a]) # trim(companyNames[b])
-----------------------------------------------------------------------------
(* Specifications *)

ExIdle ==
    /\ workbook = << >>
    /\ maxTokens = 0
    /\ targetIdx = 0
    /\ result = EmptyResult
    /\ skipped = << >>
    /\ exPc = "idle"

ParseIdle ==
    /\ reportContent = << >>
    /\ parsedSections = << >>
    /\ parsePc = "idle"

ReqIdle ==
    /\ file = [readable |-> FALSE, workbook |-> << >>]
    /\ rejection = "none"
    /\ reqPc = "idle"
    /\ report = NoReport
    /\ dbSections = << >>
    /\ extraction = EmptyResult
    /\ caught = << >>
    /\ generateCalls = 0
    /\ writeIdx = 0
    /\ response = NoResponse

ViewIdle ==
    /\ viewSections = << >>
    /\ activeSection = ""
    /\ mobileMenuOpen = FALSE
    /\ clicked = 0
    /\ viewPc = "idle"

BlockIdle ==
    /\ sectionMarkdown = << >>
    /\ sectionName = << >>
    /\ special = NoSpecial
    /\ narrative = << >>
    /\ specialPc = "idle"

FmtIdle ==
    /\ cellValue = << >>
    /\ formatted = << >>
    /\ fmtPc = "idle"
    /\ cell = << >>
    /\ cellPc = "idle"

RowIdle ==
    /\ rowLabel = << >>
    /\ rowClass = << >>
    /\ rowPc = "idle"

AccessIdle ==
    /\ userCompany = << >>
    /\ userRole = << >>
    /\ reportCompany = ""
    /\ accessLog = {}
    /\ getResponse = NoGetResponse
    /\ patchPc = "idle"
    /\ patchPublished = FALSE

CompanyIdle ==
    /\ companyNames = << >>
    /\ companyRequests = << >>

AdminIdle == AccessIdle /\ CompanyIdle

UiIdle == ViewIdle /\ BlockIdle /\ FmtIdle /\ RowIdle /\ AdminIdle

\* the generation request on every upload and generated document, and the viewer
\* on the report it published
Init == ReqInit /\ ExIdle /\ ParseIdle /\ ViewInit /\ BlockIdle /\ FmtIdle /\ RowIdle /\ AdminIdle

Next == ReqNext \/ ViewNext

Spec == Init /\ [][Next]_vars

\* extractCoreSheets on every workbook and budget
InitExtract == ExInit /\ ParseIdle /\ ReqIdle /\ UiIdle

SpecExtract == InitExtract /\ [][ExNext]_vars

\* parseReportSections on every document
InitParse == ParseInit /\ ExIdle /\ ReqIdle /\ UiIdle

SpecParse == InitParse /\ [][ParseNext]_vars

\* parseReportSections on the documents of the nine headings
InitScramble == ScrambleInit /\ ExIdle /\ ReqIdle /\ UiIdle

SpecScramble == InitScramble /\ [][ParseNext]_vars

\* parseReportSections on the documents with headings of several levels
InitLevels == LevelInit /\ ExIdle /\ ReqIdle /\ UiIdle

SpecLevels == InitLevels /\ [][ParseNext]_vars

\* parseSpecialSections on the section texts
InitSpecial == SpecialInit /\ ExIdle /\ ParseIdle /\ ReqIdle /\ ViewIdle /\ FmtIdle /\ RowIdle /\ AdminIdle

SpecSpecial == InitSpecial /\ [][SpecialNext]_vars

\* MarkdownContent on the stored sections, with their stored names
InitRender == RenderInit /\ ExIdle /\ ParseIdle /\ ReqIdle /\ ViewIdle /\ FmtIdle /\ RowIdle /\ AdminIdle

SpecRender == InitRender /\ [][SpecialNext]_vars

\* MarkdownContent on the section texts with several insights blocks
InitInsights == InsightsInit /\ ExIdle /\ ParseIdle /\ ReqIdle /\ ViewIdle /\ FmtIdle /\ RowIdle /\ AdminIdle

SpecInsights == InitInsights /\ [][SpecialNext]_vars

\* formatFinancialNumber on the cell values
InitFormat == FormatInit /\ ExIdle /\ ParseIdle /\ ReqIdle /\ ViewIdle /\ BlockIdle /\ RowIdle /\ AdminIdle

SpecFormat == InitFormat /\ [][FormatNext]_vars

\* the row checks on the row labels
InitRows == RowInit /\ ExIdle /\ ParseIdle /\ ReqIdle /\ ViewIdle /\ BlockIdle /\ FmtIdle /\ AdminIdle

SpecRows == InitRows /\ [][RowNext]_vars

\* the generation request next to the report requests, the user links and the
\* publish requests
InitAccess ==
    /\ ReqInit /\ file \in AccessFiles /\ rejection \in {"none", "not_admin"}
    /\ AccessInit /\ ExIdle /\ ParseIdle /\ ViewIdle /\ BlockIdle /\ FmtIdle /\ RowIdle

\* the report requests at any moment of the generation request; the user links
\* and the publish requests after it has answered
NextAccess == ReqNext \/ GetNext \/ (reqPc = "responded" /\ (LinkNext \/ PatchNext))

SpecAccess == InitAccess /\ [][NextAccess]_vars

\* the generation request interleaved with publish and unpublish requests
InitPublish ==
    /\ ReqInit /\ file \in AccessFiles /\ rejection \in {"none", "not_admin"}
    /\ AccessInit /\ ExIdle /\ ParseIdle /\ ViewIdle /\ BlockIdle /\ FmtIdle /\ RowIdle

NextPublish == ReqNext \/ PatchNext

SpecPublish == InitPublish /\ [][NextPublish]_vars

\* create and rename requests served at the same time
InitCompanies ==
    /\ CompanyInit /\ ExIdle /\ ParseIdle /\ ReqIdle
    /\ ViewIdle /\ BlockIdle /\ FmtIdle /\ RowIdle

SpecCompanies == InitCompanies /\ [][CompanyNext]_vars

====
